---- MODULE Spec2Model ----
(***************************************************************************)
(* RepoMind query pipeline: file selection, context assembly under a token *)
(* budget, answer streaming as a sequence of StreamUpdate events, and the  *)
(* non-streaming collector.                                                *)
(*                                                                         *)
(* Strings are TLA+ strings; Len, \o and SubSeq act on them character by   *)
(* character, so includes/toLowerCase/split are computed as the code does. *)
(***************************************************************************)
EXTENDS Integers, Sequences, FiniteSets, TLC

\* ------------------------------------------------------------------ bounds

\* Longest path list the injected analyzeFiles collaborator returns.
MaxSelected == 2

\* Most chunks one streamAnswer run yields.
MaxChunks == 2

\* Longest fetch-result list handed to the context assembly on its own.
MaxResults == 4

\* The longest value the cache stores, in UTF-16 code units.  The source has
\* 2 * 1024 * 1024; the model scales it down so that contents at, below and
\* above the ceiling can be enumerated and encoded.
MaxCachedLength == 8

\* A readme longer than this is stored compressed.  The source has 5000.
CompressThreshold == 4

\* Most cache operations called in one run.
MaxCacheOps == 2

\* Most key derivations compared in one run.
MaxKeyRequests == 2

\* ------------------------------------------------------- string primitives

UpperChars == "ABCDEFGHIJKLMNOPQRSTUVWXYZ"

LowerChars == "abcdefghijklmnopqrstuvwxyz"

CharAt(s, i) == SubSeq(s, i, i)

\* The lower-case letter of each upper-case letter.
LowerOf ==
    [c \in {CharAt(UpperChars, i) : i \in 1..26} |->
        CharAt(LowerChars, CHOOSE i \in 1..26 : CharAt(UpperChars, i) = c)]

LowerChar(c) == IF c \in DOMAIN LowerOf THEN LowerOf[c] ELSE c

\* String.prototype.toLowerCase, character by character (the string is
\* halved at each level to keep the evaluation shallow)
RECURSIVE ToLowerCase(_)
ToLowerCase(s) ==
    IF Len(s) = 0 THEN ""
    ELSE IF Len(s) = 1 THEN LowerChar(s)
    ELSE LET h == Len(s) \div 2
         IN ToLowerCase(SubSeq(s, 1, h)) \o ToLowerCase(SubSeq(s, h + 1, Len(s)))

\* String.prototype.includes
Includes(s, sub) ==
    \E i \in 0..(Len(s) - Len(sub)) : SubSeq(s, i + 1, i + Len(sub)) = sub

EndsWith(s, suffix) ==
    /\ Len(suffix) <= Len(s)
    /\ SubSeq(s, Len(s) - Len(suffix) + 1, Len(s)) = suffix

\* path.split("/").pop(): the text after the last "/", the whole path if none
LastSegment(path) ==
    LET slashes == {i \in 1..Len(path) : CharAt(path, i) = "/"}
        last == IF slashes = {} THEN 0
                ELSE CHOOSE i \in slashes : \A j \in slashes : j <= i
    IN SubSeq(path, last + 1, Len(path))

IsSpace(c) == c \in {" ", "\n", "\t", "\r"}

\* String.prototype.trim
Trim(s) ==
    LET kept == {i \in 1..Len(s) : ~IsSpace(CharAt(s, i))}
    IN IF kept = {} THEN ""
       ELSE SubSeq(s, CHOOSE i \in kept : \A j \in kept : i <= j,
                      CHOOSE i \in kept : \A j \in kept : j <= i)

\* Array.prototype.includes
Contains(seq, x) == \E i \in 1..Len(seq) : seq[i] = x

\* Array.prototype.slice(0, n)
Slice0(seq, n) == SubSeq(seq, 1, IF Len(seq) < n THEN Len(seq) ELSE n)

\* A text of n characters.
RECURSIVE Rep(_)
Rep(n) ==
    IF n = 0 THEN ""
    ELSE LET half == Rep(n \div 2)
         IN half \o half \o (IF n % 2 = 1 THEN "x" ELSE "")

\* ------------------------------------------------------------ lib/tokens

\* The budget ceiling, scaled down (the marker, the fallback text and a few
\* file headers each stay well below it, as they do at the real scale).
MAX_TOKENS == 64

CharsPerToken == 4

\* estimate(text): proportional to the character count, rounded up
countTokens(text) == (Len(text) + CharsPerToken - 1) \div CharsPerToken

\* Number.prototype.toLocaleString for values below 1000 (no grouping)
ToLocaleString(n) == ToString(n)

\* ------------------------------------------------- lib/services/query-pipeline

\* /\.(png|jpg|...|min\.js|min\.css)$/i
SkipExtensions ==
    {"png", "jpg", "jpeg", "gif", "svg", "ico", "lock", "pdf", "zip", "tar",
     "gz", "map", "wasm", "min.js", "min.css"}

SKIP_PATTERN(p) ==
    \E ext \in SkipExtensions : EndsWith(ToLowerCase(p), "." \o ext)

KeepPath(p) ==
    /\ ~SKIP_PATTERN(p)
    /\ ~Includes(p, "node_modules/")
    /\ ~Includes(p, ".git/")

pruneFilePaths(paths) == SelectSeq(paths, KeepPath)

\* A fetch result {path, content}: content is null (isNull) or the text.
Falsy(r) == r.isNull \/ r.text = ""

TruncationMarker ==
    "\n--- NOTE: Context truncated at " \o ToLocaleString(MAX_TOKENS)
        \o " token limit ---\n"

FileBlock(path, content) ==
    "\n--- FILE: " \o path \o " ---\n" \o content \o "\n"

NoContentMessage == "No file content could be retrieved for the selected files."

\* Mutant: `continue` instead of `break` after the truncation note.
ContextStepNoBreak(acc, r) ==
    IF acc.stopped \/ Falsy(r) THEN acc
    ELSE LET tokens == countTokens(r.text)
         IN IF acc.tokenTotal + tokens > MAX_TOKENS
            THEN [acc EXCEPT !.context = @ \o TruncationMarker]
            ELSE [acc EXCEPT !.context = @ \o FileBlock(r.path, r.text),
                             !.tokenTotal = @ + tokens]

\* One iteration of the loop `for (const { path, content } of fileResults)`;
\* acc.stopped records the break.
ContextStep(acc, r) ==
    IF acc.stopped \/ Falsy(r) THEN acc
    ELSE LET tokens == countTokens(r.text)
         IN IF acc.tokenTotal + tokens > MAX_TOKENS
            THEN [acc EXCEPT !.context = @ \o TruncationMarker,
                             !.stopped = TRUE]
            ELSE [acc EXCEPT !.context = @ \o FileBlock(r.path, r.text),
                             !.tokenTotal = @ + tokens]

RECURSIVE ContextLoop(_, _)
ContextLoop(results, acc) ==
    IF results = <<>> THEN acc
    ELSE ContextLoop(Tail(results), ContextStep(acc, Head(results)))

\* Step 2 of the pipeline after the fetch: the loop, then the empty fallback.
AssembleContext(results) ==
    LET acc == ContextLoop(results,
                   [context |-> "", tokenTotal |-> 0, stopped |-> FALSE])
    IN [context |-> IF acc.context = "" THEN NoContentMessage ELSE acc.context,
        tokenTotal |-> acc.tokenTotal]

\* ----------------------------------------------------- actions: fetchRepoFiles

\* Mutant: `>=` instead of `>` in the budget test.
FetchRepoFilesStepOffByOne(acc, r) ==
    IF acc.stopped \/ Falsy(r) THEN acc
    ELSE LET tokens == countTokens(r.text)
         IN IF acc.tokenTotal + tokens >= MAX_TOKENS
            THEN [acc EXCEPT !.context = @ \o TruncationMarker,
                             !.stopped = TRUE]
            ELSE [acc EXCEPT !.context = @ \o FileBlock(r.path, r.text),
                             !.tokenTotal = @ + tokens,
                             !.fetchedFiles = Append(@, r.path)]

\* One iteration of fetchRepoFiles' loop over the batch results.
FetchRepoFilesStep(acc, r) ==
    IF acc.stopped \/ Falsy(r) THEN acc
    ELSE LET tokens == countTokens(r.text)
         IN IF acc.tokenTotal + tokens > MAX_TOKENS
            THEN [acc EXCEPT !.context = @ \o TruncationMarker,
                             !.stopped = TRUE]
            ELSE [acc EXCEPT !.context = @ \o FileBlock(r.path, r.text),
                             !.tokenTotal = @ + tokens,
                             !.fetchedFiles = Append(@, r.path)]

RECURSIVE FetchRepoFilesLoop(_, _)
FetchRepoFilesLoop(results, acc) ==
    IF results = <<>> THEN acc
    ELSE FetchRepoFilesLoop(Tail(results), FetchRepoFilesStep(acc, Head(results)))

\* fetchRepoFiles, given what getFileContentBatch returned
fetchRepoFiles(results) ==
    LET acc == FetchRepoFilesLoop(results,
                   [context |-> "", tokenTotal |-> 0, fetchedFiles |-> <<>>,
                    stopped |-> FALSE])
    IN [context |-> acc.context, fetchedFiles |-> acc.fetchedFiles]

\* ------------------------------------------------------------ pipeline state

VARIABLES
    params,         \* RepoQueryParams of the run: query, owner, repo, filePaths
    consumer,       \* "forward" (generateAnswerStream) or "collect" (executeRepoQuery)
    pc,             \* where the generator executeRepoQueryStream is suspended
    events,         \* the StreamUpdate events yielded so far, in order
    prunedPaths,    \* local prunedPaths
    relevantFiles,  \* local relevantFiles
    fileResults,    \* local fileResults
    context,        \* local context
    tokenTotal,     \* local tokenTotal
    streamed,       \* the chunks streamAnswer has yielded so far
    thrown,         \* what a collaborator threw, if one did
    calls,          \* the collaborator calls made, in order
    answer,         \* executeRepoQuery: local answer
    collectedFiles, \* executeRepoQuery: local relevantFiles
    outcome,        \* consumer: "running", "exhausted", "returned" or "thrown"
    failure         \* executeRepoQuery: message of the Error it threw

pipeVars ==
    <<params, consumer, pc, events, prunedPaths, relevantFiles, fileResults,
      context, tokenTotal, streamed, thrown, calls, answer, collectedFiles,
      outcome, failure>>

\* Context assembly on its own.
VARIABLES
    batch,          \* what getFileContentBatch / fetchFiles returned
    assembled,      \* the pipeline's context for batch, once assembled
    fetched,        \* fetchRepoFiles' result for batch, once it ran
    asmPc           \* which of the two have run

asmVars == <<batch, assembled, fetched, asmPc>>

\* One analyzeFileSelection request and the key-value store behind lib/cache.
VARIABLES
    selReq,         \* the arguments: question, fileTree, owner, repo
    selPc,          \* where the request is suspended
    selResult,      \* the list it returned
    selPending,     \* local selectedFiles while the cache write is awaited
    promptFiles,    \* the candidate lines put into the selection prompt
    kvStore,        \* the store: a set of [key, ttl, value] entries
    kvReads,        \* the kv.get calls made, in order: key, and whether it failed
    kvWrites,       \* the kv.setex calls made, in order
    aiCalls,        \* number of generateContent calls
    selPath,        \* the return statement taken: bypass, cache, ai, fallback
    aiAnswer        \* what the selection call to the AI came to

selVars ==
    <<selReq, selPc, selResult, selPending, promptFiles, kvStore, kvReads,
      kvWrites, aiCalls, selPath, aiAnswer>>

\* The exported operations of lib/cache called one after the other.
VARIABLES
    kv,             \* the store: entries of key, ttl and value
    cacheOps        \* the calls made so far, with arguments and outcome

cacheVars == <<kv, cacheOps>>

\* Cache keys derived for requests, to be compared with one another.
VARIABLES
    keyLog,         \* the requests so far, each with the key derived for it
    scanKeys        \* the scan requests so far, each with its cache key

keyVars == <<keyLog, scanKeys>>

\* Two analyzeFileSelection requests in flight over one store.
VARIABLES
    race,           \* per request: arguments, suspension point, locals, result
    raceStore,      \* the store both requests use
    raceWrites      \* the kv.setex calls made, in the order the store got them

raceVars == <<race, raceStore, raceWrites>>

\* One scanRepositoryVulnerabilities request.
VARIABLES
    scanReq,          \* the arguments: owner, repo, files, options
    scanPc,           \* where the request is suspended
    scanStore,        \* the store behind lib/cache
    codeFiles,        \* runSecurityScan: local codeFiles
    filesWithContent, \* local filesWithContent
    patternFindings,  \* local patternFindings
    aiFiles,          \* local aiFiles, the list handed to the AI scanner
    aiFindings,       \* local aiFindings
    scanResult,       \* what the request returned
    scanLog,          \* the collaborator and store calls made, in order
    scanEarlier       \* the request served before this one, if any

scanVars ==
    <<scanReq, scanPc, scanStore, codeFiles, filesWithContent, patternFindings,
      aiFiles, aiFindings, scanResult, scanLog, scanEarlier>>

\* What a step of one part leaves alone in the others.
OtherFrame == UNCHANGED <<raceVars, scanVars>>

PipeFrame == OtherFrame /\ UNCHANGED <<asmVars, selVars, cacheVars, keyVars>>

AsmFrame == OtherFrame /\ UNCHANGED <<pipeVars, selVars, cacheVars, keyVars>>

SelFrame == OtherFrame /\ UNCHANGED <<pipeVars, asmVars, cacheVars, keyVars>>

CacheFrame == OtherFrame /\ UNCHANGED <<pipeVars, asmVars, selVars, keyVars>>

KeyFrame == OtherFrame /\ UNCHANGED <<pipeVars, asmVars, selVars, cacheVars>>

RaceFrame ==
    UNCHANGED <<pipeVars, asmVars, selVars, cacheVars, keyVars, scanVars>>

ScanFrame ==
    UNCHANGED <<pipeVars, asmVars, selVars, cacheVars, keyVars, raceVars>>

\* Paths the injected analyzeFiles may answer with.
PathPool == {"src/auth.ts", "README.md"}

\* File lists a caller passes as params.filePaths.
FilePathChoices ==
    { <<>>,
      <<"src/auth.ts", "logo.PNG", "README.md">>,
      <<"node_modules/x/index.js", "src/auth.ts", ".git/config", "app.min.js">> }

RECURSIVE SeqsUpTo(_, _)
SeqsUpTo(S, n) ==
    IF n = 0 THEN {<<>>}
    ELSE LET shorter == SeqsUpTo(S, n - 1)
         IN shorter \cup {Append(q, x) : q \in shorter, x \in S}

\* Text a fetched file may hold: null, empty, one token, just over half the
\* budget, exactly the budget, one token more than the budget.
ContentChoices ==
    { [isNull |-> TRUE, text |-> ""],
      [isNull |-> FALSE, text |-> ""],
      [isNull |-> FALSE, text |-> "x"],
      [isNull |-> FALSE, text |-> Rep(CharsPerToken * (MAX_TOKENS \div 2 + 2))],
      [isNull |-> FALSE, text |-> Rep(CharsPerToken * MAX_TOKENS)],
      [isNull |-> FALSE, text |-> Rep(CharsPerToken * MAX_TOKENS + 1)] }

\* The contents the pipeline runs draw from.
PipeContentChoices ==
    {c \in ContentChoices : c.isNull \/ Len(c.text) <= 1
                            \/ Len(c.text) = CharsPerToken * MAX_TOKENS}

ChunkChoices == {"", "a", "b"}

\* Values a collaborator may throw: an Error with a message, an Error with
\* an empty message, a value without a message property.
ThrownChoices ==
    { [hasMessage |-> TRUE, message |-> "boom"],
      [hasMessage |-> TRUE, message |-> ""],
      [hasMessage |-> FALSE, message |-> ""] }

NotThrown == [hasMessage |-> FALSE, message |-> "<none>"]

\* Mutant: the catch block reports a fixed message.
ErrorMessageGeneric(e) == "An unexpected error occurred"

\* error?.message ?? "An unexpected error occurred"
ErrorMessage(e) ==
    IF e.hasMessage THEN e.message ELSE "An unexpected error occurred"

StatusEvent(m, p) == [type |-> "status", message |-> m, progress |-> p]
FilesEvent(f) == [type |-> "files", files |-> f]
\* Mutant: content events that replace instead of appending.
ContentEventNoAppend(t) == [type |-> "content", text |-> t, append |-> FALSE]

ContentEvent(t) == [type |-> "content", text |-> t, append |-> TRUE]
CompleteEvent(f) == [type |-> "complete", relevantFiles |-> f]
ErrorEvent(m) == [type |-> "error", message |-> m]

\* Mutant: the collector keeps only the latest chunk (= instead of +=).
YieldOverwriteAnswer(ev, nextPc) ==
    /\ events' = Append(events, ev)
    /\ IF consumer = "collect"
       THEN /\ answer' = IF ev.type = "content" THEN ev.text ELSE answer
            /\ collectedFiles' =
                 IF ev.type = "complete" THEN ev.relevantFiles ELSE collectedFiles
            /\ outcome' = IF ev.type = "error" THEN "thrown" ELSE outcome
            /\ failure' = IF ev.type = "error" THEN ev.message ELSE failure
            /\ pc' = IF ev.type = "error" THEN "done" ELSE nextPc
       ELSE /\ UNCHANGED <<answer, collectedFiles, outcome, failure>>
            /\ pc' = nextPc

\* Mutant: the collector does not re-raise an error event.
YieldIgnoreError(ev, nextPc) ==
    /\ events' = Append(events, ev)
    /\ IF consumer = "collect"
       THEN /\ answer' = IF ev.type = "content" THEN answer \o ev.text ELSE answer
            /\ collectedFiles' =
                 IF ev.type = "complete" THEN ev.relevantFiles ELSE collectedFiles
            /\ UNCHANGED <<outcome, failure>>
            /\ pc' = nextPc
       ELSE /\ UNCHANGED <<answer, collectedFiles, outcome, failure>>
            /\ pc' = nextPc

\* The generator yields ev and the consumer handles it. executeRepoQuery
\* throws out of its for-await on an error event, which closes the generator.
Yield(ev, nextPc) ==
    /\ events' = Append(events, ev)
    /\ IF consumer = "collect"
       THEN /\ answer' = IF ev.type = "content" THEN answer \o ev.text ELSE answer
            /\ collectedFiles' =
                 IF ev.type = "complete" THEN ev.relevantFiles ELSE collectedFiles
            /\ outcome' = IF ev.type = "error" THEN "thrown" ELSE outcome
            /\ failure' = IF ev.type = "error" THEN ev.message ELSE failure
            /\ pc' = IF ev.type = "error" THEN "done" ELSE nextPc
       ELSE /\ UNCHANGED <<answer, collectedFiles, outcome, failure>>
            /\ pc' = nextPc

\* Mutant: the failure is reported from inside the streaming loop, which
\* then goes on.
CatchAndContinue(e) ==
    /\ thrown' = e
    /\ Yield(ErrorEvent(ErrorMessage(e)), "streaming")

\* catch (error): yield the error event
Catch(e) ==
    /\ thrown' = e
    /\ Yield(ErrorEvent(ErrorMessage(e)), "caught")

PipeInit ==
    /\ params \in [query : {"explain src/auth.ts"}, owner : {"o"}, repo : {"r"},
                   filePaths : FilePathChoices]
    /\ consumer \in {"forward", "collect"}
    /\ pc = "start"
    /\ events = <<>>
    /\ prunedPaths = <<>>
    /\ relevantFiles = <<>>
    /\ fileResults = <<>>
    /\ context = ""
    /\ tokenTotal = 0
    /\ streamed = <<>>
    /\ thrown = NotThrown
    /\ calls = <<>>
    /\ answer = ""
    /\ collectedFiles = <<>>
    /\ outcome = "running"
    /\ failure = ""

\* Mutant: analyzeFiles is started before the first yield.
StartCallsAnalyzeFiles ==
    /\ pc = "start" /\ outcome = "running"
    /\ PipeFrame
    /\ calls' = Append(calls, "analyzeFiles")
    /\ Yield(StatusEvent("Analyzing repository structure...", 15), "select")
    /\ UNCHANGED <<params, consumer, prunedPaths, relevantFiles, fileResults,
                   context, tokenTotal, streamed, thrown>>

\* First next(): run to the first yield.
Start ==
    /\ pc = "start" /\ outcome = "running"
    /\ PipeFrame
    /\ Yield(StatusEvent("Analyzing repository structure...", 15), "select")
    /\ UNCHANGED <<params, consumer, prunedPaths, relevantFiles, fileResults,
                   context, tokenTotal, streamed, thrown, calls>>

\* Step 1: prune, call analyzeFiles; it returns a list or throws.
SelectFiles ==
    /\ pc = "select" /\ outcome = "running"
    /\ PipeFrame
    /\ prunedPaths' = pruneFilePaths(params.filePaths)
    /\ calls' = Append(calls, "analyzeFiles")
    /\ \/ \E files \in SeqsUpTo(PathPool, MaxSelected) :
            /\ relevantFiles' = files
            /\ Yield(FilesEvent(files), "files")
            /\ UNCHANGED thrown
       \/ \E e \in ThrownChoices :
            /\ Catch(e)
            /\ UNCHANGED relevantFiles
    /\ UNCHANGED <<params, consumer, fileResults, context, tokenTotal, streamed>>

\* Mutant: the selection is announced again when reading starts.
StatusReadingRepeatsFiles ==
    /\ pc = "files" /\ outcome = "running"
    /\ PipeFrame
    /\ Yield(FilesEvent(relevantFiles), "fetch")
    /\ UNCHANGED <<params, consumer, prunedPaths, relevantFiles, fileResults,
                   context, tokenTotal, streamed, thrown, calls>>

\* Mutant: reading is announced with the progress of the last step.
StatusReadingAt70 ==
    /\ pc = "files" /\ outcome = "running"
    /\ PipeFrame
    /\ Yield(StatusEvent("Reading selected files...", 70), "fetch")
    /\ UNCHANGED <<params, consumer, prunedPaths, relevantFiles, fileResults,
                   context, tokenTotal, streamed, thrown, calls>>

\* The second yield after analyzeFiles returned: the status of step 2.
StatusReading ==
    /\ pc = "files" /\ outcome = "running"
    /\ PipeFrame
    /\ Yield(StatusEvent("Reading selected files...", 40), "fetch")
    /\ UNCHANGED <<params, consumer, prunedPaths, relevantFiles, fileResults,
                   context, tokenTotal, streamed, thrown, calls>>

\* What fetchFiles may return for the requested paths: one result per path,
\* in request order, each with any content.
FetchOutcomes(paths) ==
    { [i \in 1..Len(paths) |->
          [path |-> paths[i], isNull |-> c[i].isNull, text |-> c[i].text]] :
      c \in [1..Len(paths) -> PipeContentChoices] }

\* Mutant: a fetchFiles that throws is called once more before the run
\* gives up.
FetchContentRetries ==
    /\ pc = "fetch" /\ outcome = "running"
    /\ PipeFrame
    /\ \/ \E results \in FetchOutcomes(relevantFiles) :
            /\ calls' = Append(calls, "fetchFiles")
            /\ fileResults' = results
            /\ context' = AssembleContext(results).context
            /\ tokenTotal' = AssembleContext(results).tokenTotal
            /\ Yield(StatusEvent("Thinking...", 70), "generate")
            /\ UNCHANGED thrown
       \/ \E e \in ThrownChoices :
            /\ calls' = calls \o <<"fetchFiles", "fetchFiles">>
            /\ Catch(e)
            /\ UNCHANGED <<fileResults, context, tokenTotal>>
    /\ UNCHANGED <<params, consumer, prunedPaths, relevantFiles, streamed>>

\* Step 2: call fetchFiles, assemble the context, then announce step 3.
FetchContent ==
    /\ pc = "fetch" /\ outcome = "running"
    /\ PipeFrame
    /\ calls' = Append(calls, "fetchFiles")
    /\ \/ \E results \in FetchOutcomes(relevantFiles) :
            /\ fileResults' = results
            /\ context' = AssembleContext(results).context
            /\ tokenTotal' = AssembleContext(results).tokenTotal
            /\ Yield(StatusEvent("Thinking...", 70), "generate")
            /\ UNCHANGED thrown
       \/ \E e \in ThrownChoices :
            /\ Catch(e)
            /\ UNCHANGED <<fileResults, context, tokenTotal>>
    /\ UNCHANGED <<params, consumer, prunedPaths, relevantFiles, streamed>>

\* Mutant: the run completes with the files that had content only.
PullCompletesWithRead ==
    \/ \E chunk \in ChunkChoices :
         /\ Len(streamed) < MaxChunks
         /\ streamed' = Append(streamed, chunk)
         /\ Yield(ContentEvent(chunk), "streaming")
         /\ UNCHANGED thrown
    \/ /\ Yield(CompleteEvent(
                   LET read == SelectSeq(fileResults,
                                         LAMBDA r : ~r.isNull /\ r.text # "")
                   IN [i \in 1..Len(read) |-> read[i].path]), "completed")
       /\ UNCHANGED <<streamed, thrown>>
    \/ \E e \in ThrownChoices :
         /\ Catch(e)
         /\ UNCHANGED streamed

\* One pull of `for await (const chunk of stream)`: a chunk, the end of the
\* stream, or a failure.
Pull ==
    \/ \E chunk \in ChunkChoices :
         /\ Len(streamed) < MaxChunks
         /\ streamed' = Append(streamed, chunk)
         /\ Yield(ContentEvent(chunk), "streaming")
         /\ UNCHANGED thrown
    \/ /\ Yield(CompleteEvent(relevantFiles), "completed")
       /\ UNCHANGED <<streamed, thrown>>
    \/ \E e \in ThrownChoices :
         /\ Catch(e)
         /\ UNCHANGED streamed

\* Step 3: call streamAnswer and pull for the first time.
GenerateAnswer ==
    /\ pc = "generate" /\ outcome = "running"
    /\ PipeFrame
    /\ calls' = Append(calls, "streamAnswer")
    /\ Pull
    /\ UNCHANGED <<params, consumer, prunedPaths, relevantFiles, fileResults,
                   context, tokenTotal>>

StreamNext ==
    /\ pc = "streaming" /\ outcome = "running"
    /\ PipeFrame
    /\ Pull
    /\ UNCHANGED <<params, consumer, prunedPaths, relevantFiles, fileResults,
                   context, tokenTotal, calls>>

\* next() after the terminal event: the generator returns; the consumer's
\* loop ends, and executeRepoQuery returns { answer, relevantFiles }.
Finish ==
    /\ pc \in {"completed", "caught"} /\ outcome = "running"
    /\ PipeFrame
    /\ pc' = "done"
    /\ outcome' = IF consumer = "collect" THEN "returned" ELSE "exhausted"
    /\ UNCHANGED <<params, consumer, events, prunedPaths, relevantFiles,
                   fileResults, context, tokenTotal, streamed, thrown, calls,
                   answer, collectedFiles, failure>>

PipeNext ==
    \/ Start
    \/ SelectFiles
    \/ StatusReading
    \/ FetchContent
    \/ GenerateAnswer
    \/ StreamNext
    \/ Finish

\* The consumer of the stream stops iterating (a break out of its for-await,
\* or return() passed down by yield*): the generator is closed where it is
\* suspended and runs no further statement, there being no finally block.
StopIterating ==
    /\ outcome = "running" /\ consumer = "forward" /\ pc # "done"
    /\ PipeFrame
    /\ outcome' = "abandoned"
    /\ UNCHANGED <<params, consumer, pc, events, prunedPaths, relevantFiles,
                   fileResults, context, tokenTotal, streamed, thrown, calls,
                   answer, collectedFiles, failure>>

PullNext ==
    \/ Start
    \/ SelectFiles
    \/ StatusReading
    \/ FetchContent
    \/ GenerateAnswer
    \/ StreamNext
    \/ Finish
    \/ StopIterating

PipeIdle ==
    /\ params = [query |-> "", owner |-> "", repo |-> "", filePaths |-> <<>>]
    /\ consumer = "forward"
    /\ pc = "idle"
    /\ events = <<>>
    /\ prunedPaths = <<>>
    /\ relevantFiles = <<>>
    /\ fileResults = <<>>
    /\ context = ""
    /\ tokenTotal = 0
    /\ streamed = <<>>
    /\ thrown = NotThrown
    /\ calls = <<>>
    /\ answer = ""
    /\ collectedFiles = <<>>
    /\ outcome = "idle"
    /\ failure = ""

\* ------------------------------------------------ context assembly on its own

\* The i-th requested path.
PathAt(i) == "f" \o ToString(i) \o ".ts"

BatchChoices ==
    UNION { { [i \in 1..n |->
                 [path |-> PathAt(i), isNull |-> c[i].isNull, text |-> c[i].text]] :
              c \in [1..n -> ContentChoices] } : n \in 0..MaxResults }

NotRun == [context |-> "<not run>", fetchedFiles |-> <<>>]

AsmInit ==
    /\ batch \in BatchChoices
    /\ assembled = "<not run>"
    /\ fetched = NotRun
    /\ asmPc = {}

AsmIdle ==
    /\ batch = <<>>
    /\ assembled = "<not run>"
    /\ fetched = NotRun
    /\ asmPc = {}

\* lines 112-128 of the pipeline applied to the batch
RunAssembleContext ==
    /\ "pipeline" \notin asmPc
    /\ AsmFrame
    /\ assembled' = AssembleContext(batch).context
    /\ asmPc' = asmPc \cup {"pipeline"}
    /\ UNCHANGED <<batch, fetched>>

RunFetchRepoFiles ==
    /\ "fetchRepoFiles" \notin asmPc
    /\ AsmFrame
    /\ fetched' = fetchRepoFiles(batch)
    /\ asmPc' = asmPc \cup {"fetchRepoFiles"}
    /\ UNCHANGED <<batch, assembled>>

AsmNext ==
    \/ RunAssembleContext
    \/ RunFetchRepoFiles

\* ------------------------------------------------- lib/gemini: file selection

\* The file tree entries whose file name occurs in the question.
IsMentioned(question, path) ==
    LET filename == LastSegment(path)
    IN IF filename = "" THEN FALSE
       ELSE Includes(ToLowerCase(question), ToLowerCase(filename))

commonFiles == <<"package.json", "README.md", "tsconfig.json">>

\* slice(0, 10) of the bypass result
BypassCap == 10

\* Mutant: the bypass result is not capped.
SmartBypassNoCap(question, fileTree) ==
    LET Mentioned(path) == IsMentioned(question, path)
        mentionedFiles == SelectSeq(fileTree, Mentioned)
        Additional(f) == Contains(commonFiles, f) /\ ~Contains(mentionedFiles, f)
        additionalContext == SelectSeq(fileTree, Additional)
    IN [applies |-> Len(mentionedFiles) > 0,
        files |-> mentionedFiles \o additionalContext]

\* 1. SMART BYPASS: whether it applies and what it returns.
SmartBypass(question, fileTree) ==
    LET Mentioned(path) == IsMentioned(question, path)
        mentionedFiles == SelectSeq(fileTree, Mentioned)
        Additional(f) == Contains(commonFiles, f) /\ ~Contains(mentionedFiles, f)
        additionalContext == SelectSeq(fileTree, Additional)
    IN [applies |-> Len(mentionedFiles) > 0,
        files |-> Slice0(mentionedFiles \o additionalContext, BypassCap)]

\* Mutant: the read path forgets to trim the query.
getCachedQuerySelectionKeyUntrimmed(owner, repo, query) ==
    "query:" \o owner \o "/" \o repo \o ":" \o ToLowerCase(query)

\* normalizedQuery and key in cacheQuerySelection
cacheQuerySelectionKey(owner, repo, query) ==
    "query:" \o owner \o "/" \o repo \o ":" \o Trim(ToLowerCase(query))

\* normalizedQuery and key in getCachedQuerySelection
getCachedQuerySelectionKey(owner, repo, query) ==
    "query:" \o owner \o "/" \o repo \o ":" \o Trim(ToLowerCase(query))

QuerySelectionTtl == 86400

\* `owner && repo`
HasScope(req) == req.owner # "" /\ req.repo # ""

\* kv.get on a working store: the value under the key, or null.
KvGet(key) ==
    IF \E e \in kvStore : e.key = key
    THEN [isNull |-> FALSE, value |-> (CHOOSE e \in kvStore : e.key = key).value]
    ELSE [isNull |-> TRUE, value |-> <<>>]

\* kv.setex on a working store.
KvSetex(key, ttl, value) ==
    {e \in kvStore : e.key # key} \cup {[key |-> key, ttl |-> ttl, value |-> value]}

\* Trees above this size are pruned by directory first.
LargeTreeLimit == 1000

\* candidates.slice(0, 500) in the prompt
PromptCap == 500

IsRootFile(path) == ~Includes(path, "/")

StartsWith(s, prefix) ==
    Len(prefix) <= Len(s) /\ SubSeq(s, 1, Len(prefix)) = prefix

\* pruneFileTreeHierarchically once the collaborator named targetDirs
PruneToDirs(fileTree, targetDirs) ==
    LET Kept(path) ==
            IsRootFile(path) \/ \E d \in targetDirs : StartsWith(path, d)
    IN SelectSeq(fileTree, Kept)

\* Directories the pruning collaborator may name.
DirChoices == {{}, {"src"}, {"src", "docs"}}

\* The candidates of the selection prompt: the tree itself, or for a large
\* tree what pruneFileTreeHierarchically returns (its own failure included).
CandidateOutcomes(fileTree) ==
    IF Len(fileTree) > LargeTreeLimit
    THEN {[pruned |-> TRUE, candidates |-> PruneToDirs(fileTree, dirs)] :
              dirs \in DirChoices}
         \cup {[pruned |-> TRUE, candidates |-> Slice0(fileTree, LargeTreeLimit)]}
    ELSE {[pruned |-> FALSE, candidates |-> fileTree]}

\* Mutant: the default set is matched on the file name, not the whole path.
FallbackFilesByName(fileTree) ==
    LET Basic(f) == ToLowerCase(LastSegment(f)) \in
                        {"readme.md", "package.json", "go.mod", "cargo.toml"}
    IN SelectSeq(fileTree, Basic)

\* The catch block's default set.
FallbackFiles(fileTree) ==
    LET Basic(f) == ToLowerCase(f) \in {"readme.md", "package.json", "go.mod", "cargo.toml"}
    IN SelectSeq(fileTree, Basic)

\* Candidate paths, in tree order.
TreePool ==
    <<"README.md", "package.json", "tsconfig.json", "src/auth.ts", "a.ts",
      "b.ts", "c.ts", "d.ts", "e.ts", "f.ts", "g.ts", "h.ts", "docs/README.md",
      "lib/", "Cargo.toml">>

Reverse(seq) == [i \in 1..Len(seq) |-> seq[Len(seq) + 1 - i]]

\* The trees a request is made with: every run of consecutive pool entries,
\* in pool order and reversed.
TreeChoices ==
    LET windows == {SubSeq(TreePool, i, j) : i \in 1..Len(TreePool),
                                             j \in 0..Len(TreePool)}
    IN windows \cup {Reverse(w) : w \in windows}

QuestionChoices ==
    { "explain src/auth.ts",
      "How do AUTH.TS, a.ts, b.ts, c.ts, d.ts, e.ts, f.ts and g.ts use readme.md?",
      " What is THIS repo " }

\* What the store holds when the request starts.
StoreChoices ==
    { {},
      {[key |-> "query:o/r:what is this repo", ttl |-> QuerySelectionTtl,
        value |-> <<"src/auth.ts", "README.md">>]} }

\* "Max 50 files." in the selection prompt
PromptMaxFiles == 50

\* An answer naming n distinct paths.
ManyPaths(n) == [i \in 1..n |-> "gen/f" \o ToString(i) \o ".ts"]

\* parsed.files || [] of a parseable answer; the collaborator is free to
\* name any path, and any number of them.
AIAnswerChoices ==
    {<<>>, <<"src/auth.ts">>, <<"README.md", "ghost.ts">>,
     ManyPaths(PromptMaxFiles + 1)}

\* The selection call to the AI: not made yet, answered with parsed.files
\* || [], or failed anywhere inside the try.
NotAsked == [asked |-> FALSE, ok |-> FALSE, files |-> <<>>]

Answered(files) == [asked |-> TRUE, ok |-> TRUE, files |-> files]

AIFailed == [asked |-> TRUE, ok |-> FALSE, files |-> <<>>]

SelInit ==
    /\ selReq \in [question : QuestionChoices, fileTree : TreeChoices,
                   owner : {"", "o"}, repo : {"r"}]
    /\ selPc = "start"
    /\ selResult = <<>>
    /\ selPending = <<>>
    /\ promptFiles = <<>>
    /\ kvStore \in StoreChoices
    /\ kvReads = <<>>
    /\ kvWrites = <<>>
    /\ aiCalls = 0
    /\ selPath = "none"
    /\ aiAnswer = NotAsked

SelIdle ==
    /\ selReq = [question |-> "", fileTree |-> <<>>, owner |-> "", repo |-> ""]
    /\ selPc = "idle"
    /\ selResult = <<>>
    /\ selPending = <<>>
    /\ promptFiles = <<>>
    /\ kvStore = {}
    /\ kvReads = <<>>
    /\ kvWrites = <<>>
    /\ aiCalls = 0
    /\ selPath = "none"
    /\ aiAnswer = NotAsked

\* Up to the first await: the bypass returns at once; otherwise the cache is
\* probed when a scope is given, else the AI is asked.
SelStart ==
    /\ selPc = "start"
    /\ SelFrame
    /\ LET bypass == SmartBypass(selReq.question, selReq.fileTree)
       IN IF bypass.applies
          THEN selResult' = bypass.files /\ selPc' = "done"
               /\ selPath' = "bypass"
          ELSE /\ selPc' = IF HasScope(selReq) THEN "probe" ELSE "ai"
               /\ UNCHANGED <<selResult, selPath>>
    /\ UNCHANGED <<selReq, selPending, promptFiles, kvStore, kvReads, kvWrites,
                   aiCalls, aiAnswer>>

\* Mutant: the probe reads the cache but asks the AI even on a hit.
SelProbeIgnoresHit ==
    /\ selPc = "probe"
    /\ SelFrame
    /\ LET key == getCachedQuerySelectionKey(selReq.owner, selReq.repo,
                                              selReq.question)
       IN kvReads' = Append(kvReads, [key |-> key, failed |-> FALSE])
    /\ selPc' = "ai"
    /\ UNCHANGED <<selReq, selResult, selPath, selPending, promptFiles, kvStore,
                   kvWrites, aiCalls, aiAnswer>>

\* 2. QUERY CACHING: getCachedQuerySelection; safeKvOperation turns a store
\* failure into null.
SelProbe ==
    /\ selPc = "probe"
    /\ SelFrame
    /\ LET key == getCachedQuerySelectionKey(selReq.owner, selReq.repo,
                                              selReq.question)
       IN \/ /\ ~KvGet(key).isNull
             /\ kvReads' = Append(kvReads, [key |-> key, failed |-> FALSE])
             /\ selResult' = KvGet(key).value
             /\ selPc' = "done"
             /\ selPath' = "cache"
          \/ /\ KvGet(key).isNull
             /\ kvReads' = Append(kvReads, [key |-> key, failed |-> FALSE])
             /\ selPc' = "ai"
             /\ UNCHANGED <<selResult, selPath>>
          \/ /\ kvReads' = Append(kvReads, [key |-> key, failed |-> TRUE])
             /\ selPc' = "ai"      \* the store failed: null
             /\ UNCHANGED <<selResult, selPath>>
    /\ UNCHANGED <<selReq, selPending, promptFiles, kvStore, kvWrites, aiCalls,
                   aiAnswer>>

\* Mutant: an empty selection is cached as well.
ShouldCacheEvenEmpty(req, files) == HasScope(req)

\* `owner && repo && selectedFiles.length > 0`
ShouldCache(req, files) == HasScope(req) /\ Len(files) > 0

\* The body of step 3 for the answers the AI may give: prune a large tree,
\* ask, parse; any failure inside the try falls back.
AskAI(answers) ==
    \E cand \in CandidateOutcomes(selReq.fileTree) :
         /\ promptFiles' = Slice0(cand.candidates, PromptCap)
         /\ \/ \E files \in answers :
                 /\ aiCalls' = aiCalls + (IF cand.pruned THEN 2 ELSE 1)
                 /\ aiAnswer' = Answered(files)
                 /\ IF ShouldCache(selReq, files)
                    THEN /\ selPending' = files
                         /\ selPc' = "write"
                         /\ UNCHANGED <<selResult, selPath>>
                    ELSE /\ selResult' = files
                         /\ selPc' = "done"
                         /\ selPath' = "ai"
                         /\ UNCHANGED selPending
            \/ /\ aiCalls' \in {aiCalls + (IF cand.pruned THEN 1 ELSE 0),
                                aiCalls + (IF cand.pruned THEN 2 ELSE 1)}
               /\ aiAnswer' = AIFailed
               /\ selResult' = FallbackFiles(selReq.fileTree)
               /\ selPc' = "done"
               /\ selPath' = "fallback"
               /\ UNCHANGED selPending

\* 3. AI SELECTION: prune a large tree, ask, parse; any failure falls back.
SelAI ==
    /\ selPc = "ai"
    /\ SelFrame
    /\ AskAI(AIAnswerChoices)
    /\ UNCHANGED <<selReq, kvStore, kvReads, kvWrites>>

\* A cacheQuerySelection whose store failure reaches the try of
\* analyzeFileSelection, which then answers with the fallback.
SelWriteUnguarded ==
    /\ selPc = "write"
    /\ SelFrame
    /\ LET key == cacheQuerySelectionKey(selReq.owner, selReq.repo,
                                          selReq.question)
       IN \/ /\ kvWrites' = Append(kvWrites,
                     [key |-> key, ttl |-> QuerySelectionTtl,
                      value |-> selPending, failed |-> FALSE])
             /\ kvStore' = KvSetex(key, QuerySelectionTtl, selPending)
             /\ selResult' = selPending
             /\ selPath' = "ai"
          \/ /\ kvWrites' = Append(kvWrites,
                     [key |-> key, ttl |-> QuerySelectionTtl,
                      value |-> selPending, failed |-> TRUE])
             /\ UNCHANGED kvStore
             /\ selResult' = FallbackFiles(selReq.fileTree)
             /\ selPath' = "fallback"
    /\ selPc' = "done"
    /\ UNCHANGED <<selReq, selPending, promptFiles, kvReads, aiCalls, aiAnswer>>

\* cacheQuerySelection, then return selectedFiles; a store failure is
\* swallowed by safeKvOperation.
SelWrite ==
    /\ selPc = "write"
    /\ SelFrame
    /\ LET key == cacheQuerySelectionKey(selReq.owner, selReq.repo,
                                          selReq.question)
       IN \/ /\ kvWrites' = Append(kvWrites,
                     [key |-> key, ttl |-> QuerySelectionTtl,
                      value |-> selPending, failed |-> FALSE])
             /\ kvStore' = KvSetex(key, QuerySelectionTtl, selPending)
          \/ /\ kvWrites' = Append(kvWrites,
                     [key |-> key, ttl |-> QuerySelectionTtl,
                      value |-> selPending, failed |-> TRUE])
             /\ UNCHANGED kvStore      \* the store failed
    /\ selResult' = selPending
    /\ selPc' = "done"
    /\ selPath' = "ai"
    /\ UNCHANGED <<selReq, selPending, promptFiles, kvReads, aiCalls, aiAnswer>>

SelNext ==
    \/ SelStart
    \/ SelProbe
    \/ SelAI
    \/ SelWrite

\* ------------------------- the pipeline with the default analyzeFiles

\* Questions put to the pipeline: one that names a candidate file and one
\* that names none.
PipelineQueryChoices == {"explain src/auth.ts", " What is THIS repo "}

\* AI answers short enough for every path to be fetched.
ShortAIAnswers == {a \in AIAnswerChoices : Len(a) <= MaxSelected}

QueryInit ==
    /\ params \in [query : PipelineQueryChoices, owner : {"o"}, repo : {"r"},
                   filePaths : FilePathChoices]
    /\ consumer \in {"forward", "collect"}
    /\ pc = "start"
    /\ events = <<>>
    /\ prunedPaths = <<>>
    /\ relevantFiles = <<>>
    /\ fileResults = <<>>
    /\ context = ""
    /\ tokenTotal = 0
    /\ streamed = <<>>
    /\ thrown = NotThrown
    /\ calls = <<>>
    /\ answer = ""
    /\ collectedFiles = <<>>
    /\ outcome = "running"
    /\ failure = ""
    /\ selReq = [question |-> "", fileTree |-> <<>>, owner |-> "", repo |-> ""]
    /\ selPc = "idle"
    /\ selResult = <<>>
    /\ selPending = <<>>
    /\ promptFiles = <<>>
    /\ kvStore \in StoreChoices
    /\ kvReads = <<>>
    /\ kvWrites = <<>>
    /\ aiCalls = 0
    /\ selPath = "none"
    /\ aiAnswer = NotAsked

\* Step 1 when deps gives no analyzeFiles: prune, then call
\* analyzeFileSelection(query, prunedPaths, owner, repo).
CallAnalyzeFileSelection ==
    /\ pc = "select" /\ outcome = "running" /\ selPc = "idle"
    /\ UNCHANGED <<asmVars, cacheVars, keyVars, raceVars, scanVars>>
    /\ prunedPaths' = pruneFilePaths(params.filePaths)
    /\ calls' = Append(calls, "analyzeFiles")
    /\ pc' = "selecting"
    /\ selReq' = [question |-> params.query, fileTree |-> prunedPaths',
                  owner |-> params.owner, repo |-> params.repo]
    /\ selPc' = "start"
    /\ UNCHANGED <<params, consumer, events, relevantFiles, fileResults, context,
                   tokenTotal, streamed, thrown, answer, collectedFiles,
                   outcome, failure>>
    /\ UNCHANGED <<selResult, selPending, promptFiles, kvStore, kvReads,
                   kvWrites, aiCalls, selPath, aiAnswer>>

\* Step 3 of analyzeFileSelection inside a pipeline run.
PipelineSelAI ==
    /\ selPc = "ai" /\ pc = "selecting"
    /\ SelFrame
    /\ AskAI(ShortAIAnswers)
    /\ UNCHANGED <<selReq, kvStore, kvReads, kvWrites>>

\* analyzeFileSelection has returned: relevantFiles is its list, and the
\* files event is yielded.
ReturnAnalyzeFileSelection ==
    /\ pc = "selecting" /\ outcome = "running" /\ selPc = "done"
    /\ UNCHANGED <<asmVars, cacheVars, keyVars, raceVars, scanVars>>
    /\ relevantFiles' = selResult
    /\ Yield(FilesEvent(selResult), "files")
    /\ selPc' = "returned"
    /\ UNCHANGED <<params, consumer, prunedPaths, fileResults, context,
                   tokenTotal, streamed, thrown, calls>>
    /\ UNCHANGED <<selReq, selResult, selPending, promptFiles, kvStore, kvReads,
                   kvWrites, aiCalls, selPath, aiAnswer>>

QueryNext ==
    \/ Start
    \/ CallAnalyzeFileSelection
    \/ SelStart
    \/ SelProbe
    \/ PipelineSelAI
    \/ SelWrite
    \/ ReturnAnalyzeFileSelection
    \/ StatusReading
    \/ FetchContent
    \/ GenerateAnswer
    \/ StreamNext
    \/ Finish

\* ------------------------------------------ two selection requests at once

Requests == {1, 2}

\* The two requests ask the same thing of the same repository, spelt alike
\* or not; neither names a file of the tree.
RaceQuestionChoices == {" What is THIS repo ", "what is this repo"}

RaceTree == <<"README.md", "src/auth.ts">>

\* parsed.files || [] of the two AI answers
RaceAnswerChoices == {<<>>, <<"src/auth.ts">>, <<"README.md", "ghost.ts">>}

RaceRequest(question) ==
    [question |-> question, fileTree |-> RaceTree, owner |-> "o", repo |-> "r",
     pc |-> "start", probe |-> "none", answer |-> NotAsked, pending |-> <<>>,
     result |-> <<>>, path |-> "none"]

RaceInit ==
    /\ race \in [Requests -> {RaceRequest(q) : q \in RaceQuestionChoices}]
    /\ raceStore \in StoreChoices
    /\ raceWrites = <<>>

RaceIdle ==
    /\ race = [i \in Requests |-> RaceRequest("")]
    /\ raceStore = {}
    /\ raceWrites = <<>>


RaceKey(i) == getCachedQuerySelectionKey(race[i].owner, race[i].repo,
                                         race[i].question)

\* Request i up to its first await.
RaceStart(i) ==
    /\ race[i].pc = "start"
    /\ RaceFrame
    /\ LET bypass == SmartBypass(race[i].question, race[i].fileTree)
       IN race' = [race EXCEPT ![i] =
             IF bypass.applies
             THEN [@ EXCEPT !.pc = "done", !.result = bypass.files,
                            !.path = "bypass"]
             ELSE [@ EXCEPT !.pc = IF HasScope(race[i]) THEN "probe" ELSE "ai"]]
    /\ UNCHANGED <<raceStore, raceWrites>>

\* kv.get of request i answers: with what the store holds at that moment,
\* or with a failure that safeKvOperation turns into null.
RaceProbe(i) ==
    /\ race[i].pc = "probe"
    /\ RaceFrame
    /\ \/ \E e \in raceStore :
            /\ e.key = RaceKey(i)
            /\ race' = [race EXCEPT ![i] =
                  [@ EXCEPT !.pc = "done", !.probe = "hit",
                            !.result = e.value, !.path = "cache"]]
       \/ /\ ~\E e \in raceStore : e.key = RaceKey(i)
          /\ race' = [race EXCEPT ![i] = [@ EXCEPT !.pc = "ai", !.probe = "miss"]]
       \/ race' = [race EXCEPT ![i] = [@ EXCEPT !.pc = "ai", !.probe = "failed"]]
    /\ UNCHANGED <<raceStore, raceWrites>>

\* The AI call of request i returns or fails.
RaceAI(i) ==
    /\ race[i].pc = "ai"
    /\ RaceFrame
    /\ \/ \E files \in RaceAnswerChoices :
            race' = [race EXCEPT ![i] =
                IF ShouldCache(race[i], files)
                THEN [@ EXCEPT !.pc = "write", !.answer = Answered(files),
                               !.pending = files]
                ELSE [@ EXCEPT !.pc = "done", !.answer = Answered(files),
                               !.result = files, !.path = "ai"]]
       \/ race' = [race EXCEPT ![i] =
                [@ EXCEPT !.pc = "done", !.answer = AIFailed,
                          !.result = FallbackFiles(race[i].fileTree),
                          !.path = "fallback"]]
    /\ UNCHANGED <<raceStore, raceWrites>>

\* Mutant: a write that is refused when the key is already held (SET NX)
\* and whose refusal is not swallowed, so the request falls back.
RaceWriteIfAbsent(i) ==
    /\ race[i].pc = "write"
    /\ RaceFrame
    /\ LET key == cacheQuerySelectionKey(race[i].owner, race[i].repo,
                                          race[i].question)
           held == \E e \in raceStore : e.key = key
           entry == [key |-> key, ttl |-> QuerySelectionTtl,
                     value |-> race[i].pending]
       IN /\ raceWrites' = Append(raceWrites,
                 [req |-> i, key |-> key, ttl |-> QuerySelectionTtl,
                  value |-> race[i].pending, failed |-> held])
          /\ raceStore' = IF held THEN raceStore ELSE raceStore \cup {entry}
          /\ race' = [race EXCEPT ![i] =
                IF held
                THEN [@ EXCEPT !.pc = "done", !.path = "fallback",
                               !.result = FallbackFiles(race[i].fileTree)]
                ELSE [@ EXCEPT !.pc = "done", !.result = race[i].pending,
                               !.path = "ai"]]

\* kv.setex of request i reaches the store, which replaces whatever the key
\* held, or fails; request i returns its own selectedFiles either way.
RaceWrite(i) ==
    /\ race[i].pc = "write"
    /\ RaceFrame
    /\ LET key == cacheQuerySelectionKey(race[i].owner, race[i].repo,
                                          race[i].question)
           entry == [key |-> key, ttl |-> QuerySelectionTtl,
                     value |-> race[i].pending]
       IN \/ /\ raceWrites' = Append(raceWrites,
                    [req |-> i, key |-> key, ttl |-> QuerySelectionTtl,
                     value |-> race[i].pending, failed |-> FALSE])
             /\ raceStore' = {e \in raceStore : e.key # key} \cup {entry}
          \/ /\ raceWrites' = Append(raceWrites,
                    [req |-> i, key |-> key, ttl |-> QuerySelectionTtl,
                     value |-> race[i].pending, failed |-> TRUE])
             /\ UNCHANGED raceStore
    /\ race' = [race EXCEPT ![i] =
          [@ EXCEPT !.pc = "done", !.result = race[i].pending, !.path = "ai"]]

RaceNext ==
    \/ \E i \in Requests : RaceStart(i)
    \/ \E i \in Requests : RaceProbe(i)
    \/ \E i \in Requests : RaceAI(i)
    \/ \E i \in Requests : RaceWrite(i)

\* ------------------------------------------- security scan: pure helpers

\* RISK_KEYWORDS of scorePathRisk
RISK_KEYWORDS ==
    <<"auth", "login", "oauth", "jwt", "token", "session", "admin",
      "middleware", "api", "route", "controller", "db", "sql",
      "payment", "billing", "webhook", "crypto", "secret">>

\* scorePathRisk: the number of keywords the lower-cased path contains
scorePathRisk(path) ==
    LET lower == ToLowerCase(path)
    IN Cardinality({k \in 1..Len(RISK_KEYWORDS) : Includes(lower, RISK_KEYWORDS[k])})

\* [...files].sort((a, b) => scorePathRisk(b.path) - scorePathRisk(a.path)):
\* by falling score, files of equal score in the order they had (the sort is
\* stable).
RECURSIVE SortFromScore(_, _, _)
SortFromScore(files, scores, score) ==
    LET at == SelectSeq([i \in 1..Len(files) |-> i], LAMBDA i : scores[i] = score)
    IN IF score < 0 THEN <<>>
       ELSE [k \in 1..Len(at) |-> files[at[k]]]
            \o SortFromScore(files, scores, score - 1)

SortByRisk(files) ==
    LET scores == [i \in 1..Len(files) |-> scorePathRisk(files[i].path)]
    IN SortFromScore(files, scores, Len(RISK_KEYWORDS))

\* /\.(js|jsx|ts|tsx|py|java|php|rb|go|rs)$/i
CodeExtensions ==
    {"js", "jsx", "ts", "tsx", "py", "java", "php", "rb", "go", "rs"}

IsCode(path) ==
    \/ \E ext \in CodeExtensions : EndsWith(ToLowerCase(path), "." \o ext)
    \/ path = "package.json"

\* normalizePatterns: (patterns ?? []).map(trim).filter(Boolean)
normalizePatterns(patterns) ==
    LET trimmed == [i \in 1..Len(patterns) |-> Trim(patterns[i])]
    IN SelectSeq(trimmed, LAMBDA t : t # "")

\* String.prototype.split on a one-character separator
RECURSIVE Split(_, _)
Split(text, sep) ==
    LET at == {i \in 1..Len(text) : CharAt(text, i) = sep}
        first == CHOOSE i \in at : \A j \in at : i <= j
    IN IF at = {} THEN <<text>>
       ELSE <<SubSeq(text, 1, first - 1)>>
            \o Split(SubSeq(text, first + 1, Len(text)), sep)

\* Array.prototype.join
RECURSIVE Join(_, _)
Join(texts, sep) ==
    IF texts = <<>> THEN ""
    ELSE IF Len(texts) = 1 THEN texts[1]
    ELSE texts[1] \o sep \o Join(Tail(texts), sep)

\* buildMatchers: every metacharacter but * is escaped, * becomes .*, the
\* flag is "i" and there is no ^ or $. A matcher is kept as the literal
\* stretches between the stars, lower-cased. (Patterns are written without
\* "?", "-" and "/", which the escape leaves alone without changing what
\* they match, except "?".)
buildMatchers(patterns) ==
    [i \in 1..Len(patterns) |-> Split(ToLowerCase(patterns[i]), "*")]

\* RegExp.prototype.test of such a matcher: the stretches occur in the path
\* in this order, anything before, between and after them.
RECURSIVE MatcherTest(_, _)
MatcherTest(matcher, path) ==
    IF matcher = <<>> THEN TRUE
    ELSE \E i \in 0..(Len(path) - Len(matcher[1])) :
            /\ SubSeq(path, i + 1, i + Len(matcher[1])) = matcher[1]
            /\ MatcherTest(Tail(matcher),
                           SubSeq(path, i + Len(matcher[1]) + 1, Len(path)))

\* matchesAny
matchesAny(path, matchers) ==
    \E i \in 1..Len(matchers) : MatcherTest(matchers[i], ToLowerCase(path))

\* An option of the request: given with a value, or left out.
NoDepth == [given |-> FALSE, value |-> ""]

NoNumber == [given |-> FALSE, value |-> 0]

NoFlag == [given |-> FALSE, value |-> TRUE]

NoList == [given |-> FALSE, value |-> <<>>]

Given(v) == [given |-> TRUE, value |-> v]

\* The defaults of buildScanConfig
QuickMaxFiles == 20

DeepMaxFiles == 60

QuickAiMaxFiles == 10

DeepAiMaxFiles == 25

\* buildScanConfig
buildScanConfig(options) ==
    LET depth == IF options.depth.given THEN options.depth.value ELSE "quick"
        PatternsOf(o) == IF o.given THEN o.value ELSE <<>>
    IN [depth |-> depth,
        maxFiles |-> IF options.maxFiles.given THEN options.maxFiles.value
                     ELSE IF depth = "deep" THEN DeepMaxFiles ELSE QuickMaxFiles,
        aiEnabled |-> ~(options.enableAi.given /\ ~options.enableAi.value),
        aiMaxFiles |-> IF options.aiMaxFiles.given THEN options.aiMaxFiles.value
                       ELSE IF depth = "deep" THEN DeepAiMaxFiles
                            ELSE QuickAiMaxFiles,
        includeMatchers |->
            buildMatchers(normalizePatterns(PatternsOf(options.includePatterns))),
        excludeMatchers |->
            buildMatchers(normalizePatterns(PatternsOf(options.excludePatterns))),
        hasSelectedPaths |-> options.filePaths.given,
        selectedPaths |-> {options.filePaths.value[i] :
                              i \in 1..Len(options.filePaths.value)}]

\* The predicate filterCodeFiles filters with
KeepCodeFile(path, config) ==
    /\ IsCode(path)
    /\ ~(config.hasSelectedPaths /\ path \notin config.selectedPaths)
    /\ ~(Len(config.includeMatchers) > 0
           /\ ~matchesAny(path, config.includeMatchers))
    /\ ~(Len(config.excludeMatchers) > 0
           /\ matchesAny(path, config.excludeMatchers))

\* A filterCodeFiles that cuts the list before it filters.
filterCodeFilesSliceFirst(files, config) ==
    SelectSeq(Slice0(files, config.maxFiles),
              LAMBDA f : KeepCodeFile(f.path, config))

\* filterCodeFiles: filter, then slice(0, config.maxFiles)
filterCodeFiles(files, config) ==
    Slice0(SelectSeq(files, LAMBDA f : KeepCodeFile(f.path, config)),
           config.maxFiles)

\* A finding of either scanner; line and confidence may be missing.
Finding(file, line, title, confidence, severity) ==
    [file |-> file, hasLine |-> line >= 0, line |-> line, title |-> title,
     confidence |-> confidence, severity |-> severity,
     hasSnippet |-> FALSE, snippet |-> ""]

NoLine == 0 - 1

\* `${f.file}:${f.line ?? 0}:${f.title}`
FindingKey(f) ==
    f.file \o ":" \o ToString(IF f.hasLine THEN f.line ELSE 0) \o ":" \o f.title

\* A deduplication that compares a finding with its predecessor only.
deduplicateAdjacentFindings(findings) ==
    LET idx == {i \in 1..Len(findings) :
                   i = 1 \/ FindingKey(findings[i - 1]) # FindingKey(findings[i])}
        Nth(k) == CHOOSE i \in idx : Cardinality({j \in idx : j <= i}) = k
    IN [k \in 1..Cardinality(idx) |-> findings[Nth(k)]]

\* deduplicateFindings: the first finding of each key is kept
deduplicateFindings(findings) ==
    LET idx == {i \in 1..Len(findings) :
                   \A j \in 1..(i - 1) :
                       FindingKey(findings[j]) # FindingKey(findings[i])}
        Nth(k) == CHOOSE i \in idx : Cardinality({j \in idx : j <= i}) = k
    IN [k \in 1..Cardinality(idx) |-> findings[Nth(k)]]

\* A filter that keeps everything.
KeepsConfidenceAny(f) == TRUE

\* `!f.confidence || f.confidence !== "low"`; a missing confidence is "".
KeepsConfidence(f) == f.confidence = "" \/ f.confidence # "low"

\* The AI candidates: the files with a pattern hit in risk order, then, while
\* there are fewer than aiMaxFiles, the files by risk whose path is not in
\* the list yet; then slice(0, aiMaxFiles).
RECURSIVE FillCandidates(_, _, _)
FillCandidates(candidates, filesByRisk, limit) ==
    IF filesByRisk = <<>> \/ Len(candidates) >= limit THEN candidates
    ELSE LET file == filesByRisk[1]
             listed == \E i \in 1..Len(candidates) : candidates[i].path = file.path
         IN FillCandidates(IF listed THEN candidates ELSE Append(candidates, file),
                           Tail(filesByRisk), limit)

SelectAiFiles(withContent, findings, aiMaxFiles) ==
    LET filesByRisk == SortByRisk(withContent)
        patternHitFiles == {findings[i].file : i \in 1..Len(findings)}
        hits == SelectSeq(filesByRisk, LAMBDA f : f.path \in patternHitFiles)
    IN Slice0(FillCandidates(hits, filesByRisk, aiMaxFiles), aiMaxFiles)

\* ------------------------------------------------- lib/cache: value encoding

\* A JavaScript string is a sequence of UTF-16 code units.  Content strings
\* are written with the characters below, one per code unit: letters and
\* punctuation denote themselves, and four characters name code units that
\* cannot be typed: "@" is U+00E9, "^" the high surrogate U+D83D, "~" the low
\* surrogate U+DE00 and "?" the replacement character U+FFFD.
AsciiRuns ==
    { [from |-> 32, text |-> " !\"#$%&'()*+,-./0123456789:;<=>"],
      [from |-> 65, text |-> "ABCDEFGHIJKLMNOPQRSTUVWXYZ[\\]"],
      [from |-> 95, text |-> "_"],
      [from |-> 97, text |-> "abcdefghijklmnopqrstuvwxyz{|}"] }

CodeUnits ==
    UNION { {[c |-> CharAt(r.text, i), u |-> r.from + i - 1] :
                i \in 1..Len(r.text)} : r \in AsciiRuns }
    \cup { [c |-> "@", u |-> 233], [c |-> "^", u |-> 55357],
           [c |-> "~", u |-> 56832], [c |-> "?", u |-> 65533] }

CodeUnitOf(c) == (CHOOSE e \in CodeUnits : e.c = c).u

CharOfUnit(u) == (CHOOSE e \in CodeUnits : e.u = u).c

IsHighSurrogate(u) == u \in 55296..56319

IsLowSurrogate(u) == u \in 56320..57343

\* U+FFFD, which the encoder and the decoder put in place of what they
\* cannot represent.
ReplacementCodePoint == 65533

\* The UTF-8 bytes of one code point.
Utf8OfCodePoint(cp) ==
    IF cp < 128 THEN <<cp>>
    ELSE IF cp < 2048 THEN <<192 + (cp \div 64), 128 + (cp % 64)>>
    ELSE IF cp < 65536
         THEN <<224 + (cp \div 4096), 128 + ((cp \div 64) % 64), 128 + (cp % 64)>>
    ELSE <<240 + (cp \div 262144), 128 + ((cp \div 4096) % 64),
           128 + ((cp \div 64) % 64), 128 + (cp % 64)>>

\* Buffer.from(string): UTF-8, a surrogate pair is one code point and an
\* unpaired surrogate is encoded as U+FFFD. (A long string is encoded half
\* by half, never cut inside a pair.)
RECURSIVE Utf8Encode(_)
Utf8Encode(s) ==
    LET Unit(i) == CodeUnitOf(CharAt(s, i))
        PairAt(i) == /\ i < Len(s)
                     /\ IsHighSurrogate(Unit(i))
                     /\ IsLowSurrogate(Unit(i + 1))
        Single(u) == Utf8OfCodePoint(IF IsHighSurrogate(u) \/ IsLowSurrogate(u)
                                     THEN ReplacementCodePoint ELSE u)
        half == Len(s) \div 2
        mid == IF PairAt(half) THEN half + 1 ELSE half
    IN IF s = "" THEN <<>>
       ELSE IF Len(s) = 1 THEN Single(Unit(1))
       ELSE IF Len(s) = 2 /\ PairAt(1)
            THEN Utf8OfCodePoint(65536 + ((Unit(1) - 55296) * 1024)
                                 + (Unit(2) - 56320))
       ELSE IF Len(s) = 2 THEN Single(Unit(1)) \o Single(Unit(2))
       ELSE Utf8Encode(SubSeq(s, 1, mid)) \o Utf8Encode(SubSeq(s, mid + 1, Len(s)))

\* The code units of one code point, as a string.
StringOfCodePoint(cp) ==
    IF cp < 65536 THEN CharOfUnit(cp)
    ELSE CharOfUnit(55296 + ((cp - 65536) \div 1024))
         \o CharOfUnit(56320 + ((cp - 65536) % 1024))

IsContinuation(b) == b \in 128..191

\* The code point at the head of a byte sequence and the bytes it takes; an
\* ill-formed head decodes to U+FFFD.
Utf8Head(bytes) ==
    LET b == bytes[1]
        n == Len(bytes)
        Cont(i) == i <= n /\ IsContinuation(bytes[i])
        two == ((b - 192) * 64) + (bytes[2] - 128)
        three == ((b - 224) * 4096) + ((bytes[2] - 128) * 64) + (bytes[3] - 128)
        four == ((b - 240) * 262144) + ((bytes[2] - 128) * 4096)
                + ((bytes[3] - 128) * 64) + (bytes[4] - 128)
    IN IF b < 128 THEN [cp |-> b, len |-> 1]
       ELSE IF b \in 194..223 /\ Cont(2) THEN [cp |-> two, len |-> 2]
       ELSE IF /\ b \in 224..239 /\ Cont(2) /\ Cont(3)
               /\ three >= 2048 /\ three \notin 55296..57343
            THEN [cp |-> three, len |-> 3]
       ELSE IF /\ b \in 240..244 /\ Cont(2) /\ Cont(3) /\ Cont(4)
               /\ four \in 65536..1114111
            THEN [cp |-> four, len |-> 4]
       ELSE [cp |-> ReplacementCodePoint, len |-> 1]

\* buffer.toString(): UTF-8 decoding, head by head. (Long input is decoded
\* in two parts, cut before a byte that is no continuation byte: such a byte
\* always starts a new head.)
RECURSIVE Utf8Decode(_)
Utf8Decode(bytes) ==
    LET n == Len(bytes)
        half == n \div 2
        starts == {p \in 2..n : ~IsContinuation(bytes[p])}
        after == {p \in starts : p > half}
        mid == IF after # {} THEN CHOOSE p \in after : \A q \in after : p <= q
               ELSE CHOOSE p \in starts : \A q \in starts : q <= p
        head == Utf8Head(bytes)
    IN IF bytes = <<>> THEN ""
       ELSE IF n > 4 /\ starts # {}
            THEN Utf8Decode(SubSeq(bytes, 1, mid - 1))
                 \o Utf8Decode(SubSeq(bytes, mid, n))
       ELSE StringOfCodePoint(head.cp)
            \o Utf8Decode(SubSeq(bytes, head.len + 1, n))

RECURSIVE SumBytes(_)
SumBytes(bytes) ==
    IF bytes = <<>> THEN 0
    ELSE IF Len(bytes) = 1 THEN bytes[1]
    ELSE SumBytes(SubSeq(bytes, 1, Len(bytes) \div 2))
         + SumBytes(SubSeq(bytes, (Len(bytes) \div 2) + 1, Len(bytes)))

\* The first bytes of every gzip member: the magic number and the deflate
\* method.
GzipHeader == <<31, 139, 8>>

\* The trailer of a gzip member: a check value over the data and the data's
\* length.  The check value is a byte sum here, where gzip uses CRC-32.
GzipTrailer(data) == <<SumBytes(data) % 256, Len(data) % 256>>

\* gzipSync(buffer): header, body, trailer.  The body carries the data
\* as it is: compression proper is left out, the framing is kept.
Gzip(data) == GzipHeader \o data \o GzipTrailer(data)

\* gunzipSync(buffer): the data, or a throw when the header or the trailer
\* is not what gzip wrote.
Gunzip(buffer) ==
    LET n == Len(buffer)
        data == SubSeq(buffer, Len(GzipHeader) + 1, n - 2)
    IN IF /\ n >= Len(GzipHeader) + 2
          /\ SubSeq(buffer, 1, Len(GzipHeader)) = GzipHeader
          /\ SubSeq(buffer, n - 1, n) = GzipTrailer(data)
       THEN [threw |-> FALSE, data |-> data]
       ELSE [threw |-> TRUE, data |-> <<>>]

Base64Alphabet ==
    "ABCDEFGHIJKLMNOPQRSTUVWXYZabcdefghijklmnopqrstuvwxyz0123456789+/"

Base64Char(i) == CharAt(Base64Alphabet, i + 1)

\* buffer.toString('base64'): three bytes to four characters, padded.
\* (More than three bytes are encoded in two parts, cut at a multiple of
\* three.)
RECURSIVE Base64Encode(_)
Base64Encode(bytes) ==
    LET n == Len(bytes)
        mid == 3 * (((n + 2) \div 3) \div 2)
    IN IF n = 0 THEN ""
       ELSE IF n = 1
            THEN Base64Char(bytes[1] \div 4) \o Base64Char((bytes[1] % 4) * 16)
                 \o "=="
       ELSE IF n = 2
            THEN Base64Char(bytes[1] \div 4)
                 \o Base64Char(((bytes[1] % 4) * 16) + (bytes[2] \div 16))
                 \o Base64Char((bytes[2] % 16) * 4) \o "="
       ELSE IF n = 3
            THEN Base64Char(bytes[1] \div 4)
                 \o Base64Char(((bytes[1] % 4) * 16) + (bytes[2] \div 16))
                 \o Base64Char(((bytes[2] % 16) * 4) + (bytes[3] \div 64))
                 \o Base64Char(bytes[3] % 64)
       ELSE Base64Encode(SubSeq(bytes, 1, mid))
            \o Base64Encode(SubSeq(bytes, mid + 1, n))

\* The value of a base64 character; the URL-safe "-" and "_" are accepted.
IsBase64Char(c) ==
    c \in {"-", "_"} \/ \E i \in 0..63 : Base64Char(i) = c

Sextet(c) ==
    IF c = "-" THEN 62
    ELSE IF c = "_" THEN 63
    ELSE CHOOSE i \in 0..63 : Base64Char(i) = c

\* The sextets of a text without "=": a character outside the alphabet is
\* skipped.
RECURSIVE SextetsOf(_)
SextetsOf(text) ==
    IF text = "" THEN <<>>
    ELSE IF Len(text) = 1
         THEN (IF IsBase64Char(text) THEN <<Sextet(text)>> ELSE <<>>)
    ELSE SextetsOf(SubSeq(text, 1, Len(text) \div 2))
         \o SextetsOf(SubSeq(text, (Len(text) \div 2) + 1, Len(text)))

\* The sextets of a base64 text: decoding stops at the first "=".
Sextets(text) ==
    LET pads == {i \in 1..Len(text) : CharAt(text, i) = "="}
        first == CHOOSE i \in pads : \A j \in pads : i <= j
    IN SextetsOf(IF pads = {} THEN text ELSE SubSeq(text, 1, first - 1))

\* Four sextets to three bytes; an incomplete last group gives the bytes it
\* holds in full. (More than four sextets are taken in two parts, cut at a
\* multiple of four.)
RECURSIVE BytesOfSextets(_)
BytesOfSextets(q) ==
    LET n == Len(q)
        mid == 4 * (((n + 3) \div 4) \div 2)
    IN IF n < 2 THEN <<>>
       ELSE IF n = 2 THEN <<(q[1] * 4) + (q[2] \div 16)>>
       ELSE IF n = 3
            THEN <<(q[1] * 4) + (q[2] \div 16), ((q[2] % 16) * 16) + (q[3] \div 4)>>
       ELSE IF n = 4
            THEN <<(q[1] * 4) + (q[2] \div 16), ((q[2] % 16) * 16) + (q[3] \div 4),
                   ((q[3] % 4) * 64) + q[4]>>
       ELSE BytesOfSextets(SubSeq(q, 1, mid)) \o BytesOfSextets(SubSeq(q, mid + 1, n))

\* Buffer.from(text, 'base64'): never throws.
Base64Decode(text) == BytesOfSextets(Sextets(text))

\* The prefix that marks a compressed value.
GzMarker == "gz:"

\* `gz:${gzipSync(Buffer.from(text)).toString('base64')}`
Compress(text) == GzMarker \o Base64Encode(Gzip(Utf8Encode(text)))

\* Mutant: a value that cannot be decompressed yields the empty text.
DecompressNeverThrows(value) ==
    LET unzipped == Gunzip(Base64Decode(SubSeq(value, Len(GzMarker) + 1, Len(value))))
    IN [threw |-> FALSE,
        text |-> IF unzipped.threw THEN "" ELSE Utf8Decode(unzipped.data)]

\* gunzipSync(Buffer.from(value.slice(3), 'base64')).toString(), or a throw.
Decompress(value) ==
    LET unzipped == Gunzip(Base64Decode(SubSeq(value, Len(GzMarker) + 1, Len(value))))
    IN IF unzipped.threw THEN [threw |-> TRUE, text |-> ""]
       ELSE [threw |-> FALSE, text |-> Utf8Decode(unzipped.data)]

\* ---------------------------------------------------- lib/cache: operations

TTL_FILE == 3600
TTL_REPO == 900
TTL_PROFILE == 1800

\* The TTL of a cached answer.
AnswerTtl == 86400

\* Values as the store holds them and as the operations take and return
\* them.  An object, an array or a number is named by its JSON text; a
\* repository context has the parts metadata, languages and readme.
Null == [kind |-> "null", text |-> "", parts |-> <<>>]

Undefined == [kind |-> "undefined", text |-> "", parts |-> <<>>]

StringValue(text) == [kind |-> "string", text |-> text, parts |-> <<>>]

JsonValue(json) == [kind |-> "json", text |-> json, parts |-> <<>>]

ContextValue(metadata, languages, readme) ==
    [kind |-> "context", text |-> "", parts |-> <<metadata, languages, readme>>]

\* `!v`
IsFalsy(v) ==
    v.kind \in {"null", "undefined"} \/ (v.kind = "string" /\ v.text = "")

Setex(key, ttl, value) == [key |-> key, ttl |-> ttl, value |-> value]

\* kv.get(key): resolves to the stored value or null; a failing store
\* rejects.
KvGetCall(store, key, fails) ==
    [rejected |-> fails,
     value |-> IF ~fails /\ \E e \in store : e.key = key
               THEN (CHOOSE e \in store : e.key = key).value
               ELSE Null,
     store |-> store]

\* kv.setex(key, ttl, value): replaces the entry and resolves to "OK"; a
\* failing store rejects and keeps what it had.
KvSetexCall(store, key, ttl, value, fails) ==
    [rejected |-> fails,
     value |-> IF fails THEN Null ELSE StringValue("OK"),
     store |-> IF fails THEN store
               ELSE {e \in store : e.key # key} \cup {Setex(key, ttl, value)}]

\* Mutant: a store failure is passed on to the caller.
safeKvOperationRethrows(call) ==
    [threw |-> call.rejected, value |-> call.value, store |-> call.store]

\* safeKvOperation: the call's value, or null when the call rejects.
safeKvOperation(call) ==
    [threw |-> FALSE,
     value |-> IF call.rejected THEN Null ELSE call.value,
     store |-> call.store]

\* What one exported operation did: its return value or its throw, the
\* store afterwards, and the kv.setex calls it made.
Outcome(ret, threw, store, setex) ==
    [ret |-> ret, threw |-> threw, store |-> store, setex |-> setex]

\* `file:${owner}/${repo}:${path}:${sha}` in cacheFile
cacheFileKey(owner, repo, path, sha) ==
    "file:" \o owner \o "/" \o repo \o ":" \o path \o ":" \o sha

\* `file:${owner}/${repo}:${path}:${sha}` in getCachedFile
getCachedFileKey(owner, repo, path, sha) ==
    "file:" \o owner \o "/" \o repo \o ":" \o path \o ":" \o sha

\* Mutant: the file is stored as it is, without compression.
cacheFileUncompressed(store, owner, repo, path, sha, content, fails) ==
    IF Len(content) > MaxCachedLength
    THEN Outcome(Undefined, FALSE, store, <<>>)
    ELSE LET key == cacheFileKey(owner, repo, path, sha)
             value == StringValue(content)
             safe == safeKvOperation(KvSetexCall(store, key, TTL_FILE, value, fails))
         IN Outcome(Undefined, FALSE, safe.store, <<Setex(key, TTL_FILE, value)>>)

\* cacheFile: too long a content returns at once; the try block swallows
\* whatever is thrown inside it.
cacheFile(store, owner, repo, path, sha, content, fails) ==
    IF Len(content) > MaxCachedLength
    THEN Outcome(Undefined, FALSE, store, <<>>)
    ELSE LET key == cacheFileKey(owner, repo, path, sha)
             value == StringValue(Compress(content))
             safe == safeKvOperation(KvSetexCall(store, key, TTL_FILE, value, fails))
         IN Outcome(Undefined, FALSE, safe.store, <<Setex(key, TTL_FILE, value)>>)

\* getCachedFile.  A truthy value that is no string has no startsWith: the
\* call throws a TypeError outside the try block.
getCachedFile(store, owner, repo, path, sha, fails) ==
    LET key == getCachedFileKey(owner, repo, path, sha)
        safe == safeKvOperation(KvGetCall(store, key, fails))
        cached == safe.value
        plain == Decompress(cached.text)
    IN IF safe.threw THEN Outcome(Null, TRUE, store, <<>>)
       ELSE IF IsFalsy(cached) THEN Outcome(Null, FALSE, store, <<>>)
       ELSE IF cached.kind # "string" THEN Outcome(Null, TRUE, store, <<>>)
       ELSE IF StartsWith(cached.text, GzMarker)
            THEN Outcome(IF plain.threw THEN Null ELSE StringValue(plain.text),
                         FALSE, store, <<>>)
       ELSE Outcome(cached, FALSE, store, <<>>)

\* `repo:${owner}/${repo}`
RepoKey(owner, repo) == "repo:" \o owner \o "/" \o repo

cacheRepoMetadata(store, owner, repo, data, ttl, fails) ==
    LET key == RepoKey(owner, repo)
        safe == safeKvOperation(KvSetexCall(store, key, ttl, data, fails))
    IN Outcome(Undefined, safe.threw, safe.store, <<Setex(key, ttl, data)>>)

getCachedRepoMetadata(store, owner, repo, fails) ==
    LET safe == safeKvOperation(KvGetCall(store, RepoKey(owner, repo), fails))
    IN Outcome(safe.value, safe.threw, store, <<>>)

\* `repo:full:${owner}/${repo}`
RepoFullKey(owner, repo) == "repo:full:" \o owner \o "/" \o repo

\* cacheRepoFullContext: a long readme is stored compressed.
cacheRepoFullContext(store, owner, repo, ctx, fails) ==
    LET key == RepoFullKey(owner, repo)
        readme == ctx.parts[3]
        readmeValue ==
            IF ~IsFalsy(readme) /\ Len(readme.text) > CompressThreshold
            THEN StringValue(Compress(readme.text))
            ELSE readme
        value == ContextValue(ctx.parts[1], ctx.parts[2], readmeValue)
        safe == safeKvOperation(KvSetexCall(store, key, TTL_REPO, value, fails))
    IN Outcome(Undefined, safe.threw, safe.store, <<Setex(key, TTL_REPO, value)>>)

\* getCachedRepoFullContext: a readme that carries the marker is
\* decompressed, and set to null when that fails.
getCachedRepoFullContext(store, owner, repo, fails) ==
    LET safe == safeKvOperation(KvGetCall(store, RepoFullKey(owner, repo), fails))
        cached == safe.value
        readme == cached.parts[3]
        plain == Decompress(readme.text)
    IN IF safe.threw THEN Outcome(Null, TRUE, store, <<>>)
       ELSE IF /\ cached.kind = "context"
               /\ ~IsFalsy(readme) /\ readme.kind = "string"
               /\ StartsWith(readme.text, GzMarker)
            THEN Outcome(ContextValue(cached.parts[1], cached.parts[2],
                             IF plain.threw THEN Null ELSE StringValue(plain.text)),
                         FALSE, store, <<>>)
       ELSE Outcome(cached, FALSE, store, <<>>)

\* `profile:${username}`
ProfileKey(username) == "profile:" \o username

cacheProfileData(store, username, data, ttl, fails) ==
    LET key == ProfileKey(username)
        safe == safeKvOperation(KvSetexCall(store, key, ttl, data, fails))
    IN Outcome(Undefined, safe.threw, safe.store, <<Setex(key, ttl, data)>>)

getCachedProfileData(store, username, fails) ==
    LET safe == safeKvOperation(KvGetCall(store, ProfileKey(username), fails))
    IN Outcome(safe.value, safe.threw, store, <<>>)

\* `tree:${owner}/${repo}:${branch}`
TreeKey(owner, repo, branch) ==
    "tree:" \o owner \o "/" \o repo \o ":" \o branch

cacheFileTree(store, owner, repo, branch, tree, fails) ==
    LET key == TreeKey(owner, repo, branch)
        safe == safeKvOperation(KvSetexCall(store, key, TTL_REPO, tree, fails))
    IN Outcome(Undefined, safe.threw, safe.store, <<Setex(key, TTL_REPO, tree)>>)

getCachedFileTree(store, owner, repo, branch, fails) ==
    LET safe == safeKvOperation(KvGetCall(store, TreeKey(owner, repo, branch), fails))
    IN Outcome(safe.value, safe.threw, store, <<>>)

cacheQuerySelection(store, owner, repo, query, files, fails) ==
    LET key == cacheQuerySelectionKey(owner, repo, query)
        safe == safeKvOperation(
                    KvSetexCall(store, key, QuerySelectionTtl, files, fails))
    IN Outcome(Undefined, safe.threw, safe.store,
               <<Setex(key, QuerySelectionTtl, files)>>)

getCachedQuerySelection(store, owner, repo, query, fails) ==
    LET key == getCachedQuerySelectionKey(owner, repo, query)
        safe == safeKvOperation(KvGetCall(store, key, fails))
    IN Outcome(safe.value, safe.threw, store, <<>>)

\* The order of two strings under the default comparison of Array.sort: by
\* UTF-16 code units, a proper prefix first.
SortsBefore(a, b) ==
    LET n == IF Len(a) < Len(b) THEN Len(a) ELSE Len(b)
        differ == {i \in 1..n : CharAt(a, i) # CharAt(b, i)}
        first == CHOOSE i \in differ : \A j \in differ : i <= j
    IN IF differ = {} THEN Len(a) < Len(b)
       ELSE CodeUnitOf(CharAt(a, first)) < CodeUnitOf(CharAt(b, first))

\* files.sort(): every path is kept, a path named twice stays twice.
SortFiles(files) ==
    LET n == Len(files)
        Rank(i) == Cardinality({j \in 1..n : \/ SortsBefore(files[j], files[i])
                                             \/ files[j] = files[i] /\ j <= i})
        ranks == [i \in 1..n |-> Rank(i)]
    IN [k \in 1..n |-> files[CHOOSE i \in 1..n : ranks[i] = k]]

\* files.join('|')
RECURSIVE JoinPaths(_)
JoinPaths(files) ==
    IF files = <<>> THEN ""
    ELSE IF Len(files) = 1 THEN files[1]
    ELSE files[1] \o "|" \o JoinPaths(Tail(files))

\* substring(0, 100) of the joined paths
FileHashLength == 100

FileHash(files) == Slice0(JoinPaths(SortFiles(files)), FileHashLength)

\* The key of cacheRepoQueryAnswer
cacheRepoQueryAnswerKey(owner, repo, query, files) ==
    "answer:" \o owner \o "/" \o repo \o ":" \o Trim(ToLowerCase(query))
        \o ":" \o FileHash(files)

\* The key of getCachedRepoQueryAnswer
getCachedRepoQueryAnswerKey(owner, repo, query, files) ==
    "answer:" \o owner \o "/" \o repo \o ":" \o Trim(ToLowerCase(query))
        \o ":" \o FileHash(files)

\* typeof answer === 'string' ? answer : JSON.stringify(answer)
Stringify(ans) == ans.text

\* cacheRepoQueryAnswer: the compressed answer is stored; when the try
\* block throws, the plain text is stored instead.
cacheRepoQueryAnswer(store, owner, repo, query, files, ans, fails) ==
    LET key == cacheRepoQueryAnswerKey(owner, repo, query, files)
        value == StringValue(Compress(Stringify(ans)))
        plain == StringValue(Stringify(ans))
        first == safeKvOperation(KvSetexCall(store, key, AnswerTtl, value, fails))
        second == safeKvOperation(KvSetexCall(store, key, AnswerTtl, plain, fails))
    IN IF ~first.threw
       THEN Outcome(Undefined, FALSE, first.store, <<Setex(key, AnswerTtl, value)>>)
       ELSE Outcome(Undefined, second.threw, second.store,
                    <<Setex(key, AnswerTtl, value), Setex(key, AnswerTtl, plain)>>)

\* The texts JSON.parse accepts, among those the model stores.
JsonTexts == {"{}", "7"}

\* The text of an object as JSON.stringify writes it.
IsObjectText(text) == StartsWith(text, "{\"") /\ EndsWith(text, "}")

\* getCachedRepoQueryAnswer: the stored text, decompressed when it carries
\* the marker, parsed as JSON when it can be.
getCachedRepoQueryAnswer(store, owner, repo, query, files, fails) ==
    LET key == getCachedRepoQueryAnswerKey(owner, repo, query, files)
        safe == safeKvOperation(KvGetCall(store, key, fails))
        cached == safe.value
        plain == Decompress(cached.text)
        Parsed(text) ==
            IF text \in JsonTexts \/ IsObjectText(text)
            THEN JsonValue(text) ELSE StringValue(text)
    IN IF safe.threw THEN Outcome(Null, TRUE, store, <<>>)
       ELSE IF IsFalsy(cached) THEN Outcome(Null, FALSE, store, <<>>)
       ELSE IF cached.kind # "string" THEN Outcome(Null, TRUE, store, <<>>)
       ELSE IF StartsWith(cached.text, GzMarker)
            THEN Outcome(IF plain.threw THEN Null ELSE Parsed(plain.text),
                         FALSE, store, <<>>)
       ELSE Outcome(Parsed(cached.text), FALSE, store, <<>>)

\* The message of the error clearRepoCache throws.
ClearRepoCacheMessage(owner, repo) ==
    "clearRepoCache is not implemented. Cache for " \o owner \o "/" \o repo
    \o " was NOT cleared. "
    \o "Use the Vercel KV dashboard or implement a key-tracking strategy."

\* A clearRepoCache that removes every entry of the repository and returns.
clearRepoCacheEvicts(store, owner, repo) ==
    [ret |-> Undefined, threw |-> FALSE, error |-> "",
     store |-> {e \in store : ~Includes(e.key, owner \o "/" \o repo)},
     setex |-> <<>>, kvCalls |-> <<"scan", "del">>]

\* clearRepoCache: the body is one throw; kv is not referenced.
clearRepoCache(store, owner, repo) ==
    [ret |-> Undefined, threw |-> TRUE,
     error |-> ClearRepoCacheMessage(owner, repo),
     store |-> store, setex |-> <<>>, kvCalls |-> <<>>]

\* ------------------------------------------- lib/cache: calls against a store

\* Contents handed to cacheFile: empty, plain text that itself starts with
\* the marker, text outside ASCII with a surrogate pair, an unpaired high and
\* an unpaired low surrogate, and the longest content cached and the
\* shortest one skipped.
FileContentChoices ==
    {"", "gz:a", "@^~", "a^", "~", Rep(MaxCachedLength), Rep(MaxCachedLength + 1)}

\* Answers handed to cacheRepoQueryAnswer: a short text, a text above the
\* size ceiling, an object.
AnswerChoices ==
    {StringValue("hi"), StringValue(Rep(MaxCachedLength + 1)), JsonValue("{}")}

AnswerFiles == <<"b.ts", "a.ts">>

\* A repository context whose readme is absent, short, short and starting
\* with the marker itself, or long enough to be compressed.
ContextChoices ==
    {ContextValue(JsonValue("{}"), JsonValue("{}"), readme) :
        readme \in {Null, StringValue("hi"), StringValue("gz:a"),
                    StringValue(Rep(CompressThreshold + 1))}}

\* What the store holds before the first call: nothing, or values under the
\* file key and the answer key that carry the marker and were not written by
\* the cache: text that is no gzip member, nothing at all after the marker,
\* and a gzip member whose trailer does not match its data.
TamperedValues == {"gz:not-base64-string", "gz:", "gz:H4sIYWHCAQ=="}

InitialStores ==
    {{}} \cup
    {{Setex(getCachedFileKey("o", "r", "p", "1"), TTL_FILE, StringValue(t)),
      Setex(getCachedRepoQueryAnswerKey("o", "r", "foo bar", AnswerFiles),
            AnswerTtl, StringValue(t))} : t \in TamperedValues}

CacheInit ==
    /\ kv \in InitialStores
    /\ cacheOps = <<>>

\* One call of an exported operation: the store moves to what the call left
\* and the call is logged with its arguments and its outcome.
Record(op, key, args, input, fails, out) ==
    /\ kv' = out.store
    /\ cacheOps' = Append(cacheOps,
           [op |-> op, key |-> key, args |-> args, input |-> input,
            kvFailed |-> fails, ret |-> out.ret, threw |-> out.threw,
            setex |-> out.setex])

CallCacheFile ==
    /\ Len(cacheOps) < MaxCacheOps
    /\ CacheFrame
    /\ \E content \in FileContentChoices, fails \in BOOLEAN :
           Record("cacheFile", cacheFileKey("o", "r", "p", "1"),
                  <<"o", "r", "p", "1">>, StringValue(content), fails,
                  cacheFile(kv, "o", "r", "p", "1", content, fails))

CallGetCachedFile ==
    /\ Len(cacheOps) < MaxCacheOps
    /\ CacheFrame
    /\ \E fails \in BOOLEAN :
           Record("getCachedFile", getCachedFileKey("o", "r", "p", "1"),
                  <<"o", "r", "p", "1">>, Undefined, fails,
                  getCachedFile(kv, "o", "r", "p", "1", fails))

CallCacheRepoMetadata ==
    /\ Len(cacheOps) < MaxCacheOps
    /\ CacheFrame
    /\ \E fails \in BOOLEAN :
           Record("cacheRepoMetadata", RepoKey("o", "r"), <<"o", "r">>,
                  JsonValue("{}"), fails,
                  cacheRepoMetadata(kv, "o", "r", JsonValue("{}"), TTL_REPO, fails))

CallGetCachedRepoMetadata ==
    /\ Len(cacheOps) < MaxCacheOps
    /\ CacheFrame
    /\ \E fails \in BOOLEAN :
           Record("getCachedRepoMetadata", RepoKey("o", "r"), <<"o", "r">>,
                  Undefined, fails, getCachedRepoMetadata(kv, "o", "r", fails))

CallCacheRepoFullContext ==
    /\ Len(cacheOps) < MaxCacheOps
    /\ CacheFrame
    /\ \E ctx \in ContextChoices, fails \in BOOLEAN :
           Record("cacheRepoFullContext", RepoFullKey("o", "r"), <<"o", "r">>,
                  ctx, fails, cacheRepoFullContext(kv, "o", "r", ctx, fails))

CallGetCachedRepoFullContext ==
    /\ Len(cacheOps) < MaxCacheOps
    /\ CacheFrame
    /\ \E fails \in BOOLEAN :
           Record("getCachedRepoFullContext", RepoFullKey("o", "r"), <<"o", "r">>,
                  Undefined, fails, getCachedRepoFullContext(kv, "o", "r", fails))

CallCacheProfileData ==
    /\ Len(cacheOps) < MaxCacheOps
    /\ CacheFrame
    /\ \E fails \in BOOLEAN :
           Record("cacheProfileData", ProfileKey("u"), <<"u">>, JsonValue("{}"),
                  fails, cacheProfileData(kv, "u", JsonValue("{}"), TTL_PROFILE, fails))

CallGetCachedProfileData ==
    /\ Len(cacheOps) < MaxCacheOps
    /\ CacheFrame
    /\ \E fails \in BOOLEAN :
           Record("getCachedProfileData", ProfileKey("u"), <<"u">>, Undefined,
                  fails, getCachedProfileData(kv, "u", fails))

CallCacheFileTree ==
    /\ Len(cacheOps) < MaxCacheOps
    /\ CacheFrame
    /\ \E fails \in BOOLEAN :
           Record("cacheFileTree", TreeKey("o", "r", "main"), <<"o", "r", "main">>,
                  JsonValue("[]"), fails,
                  cacheFileTree(kv, "o", "r", "main", JsonValue("[]"), fails))

CallGetCachedFileTree ==
    /\ Len(cacheOps) < MaxCacheOps
    /\ CacheFrame
    /\ \E fails \in BOOLEAN :
           Record("getCachedFileTree", TreeKey("o", "r", "main"),
                  <<"o", "r", "main">>, Undefined, fails,
                  getCachedFileTree(kv, "o", "r", "main", fails))

CallCacheQuerySelection ==
    /\ Len(cacheOps) < MaxCacheOps
    /\ CacheFrame
    /\ \E fails \in BOOLEAN :
           Record("cacheQuerySelection",
                  cacheQuerySelectionKey("o", "r", " Foo Bar "),
                  <<"o", "r", " Foo Bar ">>, JsonValue("[\"a.ts\"]"), fails,
                  cacheQuerySelection(kv, "o", "r", " Foo Bar ",
                                      JsonValue("[\"a.ts\"]"), fails))

CallGetCachedQuerySelection ==
    /\ Len(cacheOps) < MaxCacheOps
    /\ CacheFrame
    /\ \E fails \in BOOLEAN :
           Record("getCachedQuerySelection",
                  getCachedQuerySelectionKey("o", "r", "foo bar"),
                  <<"o", "r", "foo bar">>, Undefined, fails,
                  getCachedQuerySelection(kv, "o", "r", "foo bar", fails))

CallCacheRepoQueryAnswer ==
    /\ Len(cacheOps) < MaxCacheOps
    /\ CacheFrame
    /\ \E ans \in AnswerChoices, fails \in BOOLEAN :
           Record("cacheRepoQueryAnswer",
                  cacheRepoQueryAnswerKey("o", "r", " Foo Bar ", AnswerFiles),
                  <<"o", "r", " Foo Bar ">>, ans, fails,
                  cacheRepoQueryAnswer(kv, "o", "r", " Foo Bar ", AnswerFiles,
                                       ans, fails))

CallGetCachedRepoQueryAnswer ==
    /\ Len(cacheOps) < MaxCacheOps
    /\ CacheFrame
    /\ \E fails \in BOOLEAN :
           Record("getCachedRepoQueryAnswer",
                  getCachedRepoQueryAnswerKey("o", "r", "foo bar", AnswerFiles),
                  <<"o", "r", "foo bar">>, Undefined, fails,
                  getCachedRepoQueryAnswer(kv, "o", "r", "foo bar", AnswerFiles,
                                           fails))

ClearOwnerChoices == {"o", ""}

ClearRepoChoices == {"r", ""}

\* clearRepoCache takes no store outcome into account: it is called with the
\* store answering and with the store failing alike.
CallClearRepoCache ==
    /\ Len(cacheOps) < MaxCacheOps
    /\ CacheFrame
    /\ \E owner \in ClearOwnerChoices, repo \in ClearRepoChoices,
          fails \in BOOLEAN :
           LET out == clearRepoCache(kv, owner, repo)
           IN /\ kv' = out.store
              /\ cacheOps' = Append(cacheOps,
                     [op |-> "clearRepoCache", key |-> "",
                      args |-> <<owner, repo>>, input |-> Undefined,
                      kvFailed |-> fails, ret |-> out.ret,
                      threw |-> out.threw, setex |-> out.setex,
                      error |-> out.error, kvCalls |-> out.kvCalls])

CacheNext ==
    \/ CallCacheFile
    \/ CallGetCachedFile
    \/ CallCacheRepoMetadata
    \/ CallGetCachedRepoMetadata
    \/ CallCacheRepoFullContext
    \/ CallGetCachedRepoFullContext
    \/ CallCacheProfileData
    \/ CallGetCachedProfileData
    \/ CallCacheFileTree
    \/ CallGetCachedFileTree
    \/ CallCacheQuerySelection
    \/ CallGetCachedQuerySelection
    \/ CallCacheRepoQueryAnswer
    \/ CallGetCachedRepoQueryAnswer
    \/ CallClearRepoCache

\* ------------------------------------------------ security scan: a request

\* radius = 3 of extractSnippet
SnippetRadius == 3

\* extractSnippet: the lines around the finding's line, numbered from 1
extractSnippet(content, f) ==
    LET lines == Split(content, "\n")
        last == Len(lines) - 1
        index == IF f.hasLine /\ f.line > 0
                 THEN (IF f.line - 1 < last THEN f.line - 1 ELSE last)
                 ELSE 0
        start == IF index - SnippetRadius > 0 THEN index - SnippetRadius ELSE 0
        end == IF index + SnippetRadius + 1 < Len(lines)
               THEN index + SnippetRadius + 1 ELSE Len(lines)
    IN Join([i \in 1..(end - start) |->
                ToString(start + i) \o "| " \o lines[start + i]], "\n")

\* attachSnippets: new Map(files.map(...)) keeps the last content of a path
attachSnippets(findings, files) ==
    LET Has(path) == \E i \in 1..Len(files) : files[i].path = path
        ContentOf(path) ==
            files[CHOOSE i \in 1..Len(files) :
                     /\ files[i].path = path
                     /\ \A j \in (i + 1)..Len(files) : files[j].path # path].content
    IN [k \in 1..Len(findings) |->
          IF Has(findings[k].file) /\ ContentOf(findings[k].file) # ""
          THEN [findings[k] EXCEPT
                  !.hasSnippet = TRUE,
                  !.snippet = extractSnippet(ContentOf(findings[k].file),
                                             findings[k])]
          ELSE findings[k]]

Severities == {"critical", "high", "medium", "low", "info"}

\* getScanSummary (lib/security-scanner): the counts of the findings
getScanSummary(findings) ==
    [total |-> Len(findings),
     bySeverity |-> [sev \in Severities |->
                        Len(SelectSeq(findings, LAMBDA f : f.severity = sev))]]

\* groupBySeverity (lib/security-scanner)
groupBySeverity(findings) ==
    [sev \in Severities |-> SelectSeq(findings, LAMBDA f : f.severity = sev)]

\* Stage 5 and the return value of runSecurityScan
Reconcile(config, files, withContent, pattern, ai, aiFilesSelected) ==
    LET allFindings == deduplicateFindings(pattern \o ai)
        filtered == SelectSeq(allFindings, KeepsConfidence)
        withSnippets == attachSnippets(filtered, withContent)
    IN [findings |-> withSnippets,
        summary |-> getScanSummary(filtered),
        grouped |-> groupBySeverity(withSnippets),
        meta |-> [depth |-> config.depth, aiEnabled |-> config.aiEnabled,
                  maxFiles |-> config.maxFiles,
                  aiFilesSelected |-> aiFilesSelected]]

\* JSON.stringify of a finding and of a result, written with the members
\* that tell one result from another.
FindingJson(f) ==
    "{\"file\":\"" \o f.file \o "\""
    \o (IF f.hasLine THEN ",\"line\":" \o ToString(f.line) ELSE "")
    \o ",\"title\":\"" \o f.title \o "\""
    \o (IF f.confidence # "" THEN ",\"confidence\":\"" \o f.confidence \o "\""
        ELSE "")
    \o "}"

ResultJson(result) ==
    "{\"findings\":["
    \o Join([k \in 1..Len(result.findings) |-> FindingJson(result.findings[k])],
            ",")
    \o "],\"meta\":{\"depth\":\"" \o result.meta.depth \o "\",\"aiFilesSelected\":"
    \o ToString(result.meta.aiFilesSelected) \o "}}"

\* `security_scan_${config.depth}_${config.aiEnabled}`
ScanCacheKey(config) ==
    "security_scan_" \o config.depth \o "_"
    \o (IF config.aiEnabled THEN "true" ELSE "false")

\* The file lists a scan is asked for: code and other files, upper-case
\* extensions, a manifest at the root and one below it; a list that names a
\* path twice; and no file.
ScanFileLists ==
    { <<"README.md", "lib/util.py", "src/auth/login.ts", "package.json",
        "Admin.TS", "docs/package.json", "api/db.js">>,
      <<"lib/util.py", "lib/util.py", "src/auth/login.ts">>,
      <<>> }

FilesOf(paths) == [i \in 1..Len(paths) |-> [path |-> paths[i]]]

PathsOf(files) == [i \in 1..Len(files) |-> files[i].path]

\* includePatterns, excludePatterns and filePaths of the options, together:
\* none; a padded upper-case include pattern with a star next to an empty
\* one; an exclude pattern; an allow-set; an empty allow-set; include and
\* exclude at once.
ScanSelections ==
    { [includePatterns |-> NoList, excludePatterns |-> NoList, filePaths |-> NoList],
      [includePatterns |-> Given(<<" SRC/*.ts ", " ">>), excludePatterns |-> NoList,
       filePaths |-> NoList],
      [includePatterns |-> NoList, excludePatterns |-> Given(<<"UTIL">>),
       filePaths |-> NoList],
      [includePatterns |-> NoList, excludePatterns |-> NoList,
       filePaths |-> Given(<<"lib/util.py", "README.md", "Admin.TS">>)],
      [includePatterns |-> NoList, excludePatterns |-> NoList,
       filePaths |-> Given(<<>>)],
      [includePatterns |-> Given(<<"*.js", "a*n">>),
       excludePatterns |-> Given(<<"admin.ts">>), filePaths |-> NoList] }

NoSelection ==
    [includePatterns |-> NoList, excludePatterns |-> NoList, filePaths |-> NoList]

ScanOptions(depth, maxFiles, enableAi, aiMaxFiles, sel) ==
    [depth |-> depth, maxFiles |-> maxFiles, enableAi |-> enableAi,
     aiMaxFiles |-> aiMaxFiles, includePatterns |-> sel.includePatterns,
     excludePatterns |-> sel.excludePatterns, filePaths |-> sel.filePaths]

LimitChoices ==
    { <<NoDepth, NoNumber>>, <<Given("deep"), NoNumber>>, <<NoDepth, Given(0)>>,
      <<NoDepth, Given(2)>>, <<Given("deep"), Given(2)>> }

AiChoices ==
    { <<NoFlag, NoNumber>>, <<NoFlag, Given(0)>>, <<NoFlag, Given(1)>>,
      <<NoFlag, Given(2)>>, <<Given(FALSE), NoNumber>> }

\* The options of a scan: every choice of the limits, every choice for the
\* AI scanner, and every selection with and without a file limit.
ScanOptionChoices ==
    { ScanOptions(limits[1], limits[2], NoFlag, NoNumber, NoSelection) :
          limits \in LimitChoices }
    \cup { ScanOptions(NoDepth, NoNumber, ai[1], ai[2], NoSelection) :
              ai \in AiChoices }
    \cup { ScanOptions(NoDepth, maxFiles, NoFlag, NoNumber, sel) :
              maxFiles \in {NoNumber, Given(2)}, sel \in ScanSelections }
    \cup { ScanOptions(Given("deep"), Given(2), NoFlag, Given(1), NoSelection) }

ScanRequests ==
    [owner : {"o"}, repo : {"r"},
     files : {FilesOf(l) : l \in ScanFileLists}, options : ScanOptionChoices]

\* What fetching a path comes to. Two paths may fail: in one world both
\* return text, in one the first returns an empty text, in one the first
\* throws and the other returns something that is no string; every other
\* path returns text.
FetchWorlds ==
    { [util |-> "ok", admin |-> "ok"], [util |-> "empty", admin |-> "ok"],
      [util |-> "throw", admin |-> "nonstring"] }

FetchOutcome(world, path) ==
    IF path = "lib/util.py" THEN world.util
    ELSE IF path = "Admin.TS" THEN world.admin
    ELSE "ok"

FetchedText == "let a = 1\nlet b = 2"

\* What the pattern scanner reports, for the files it was given.
PatternScenarios ==
    { <<>>,
      << Finding("lib/util.py", 3, "Eval", "high", "high"),
         Finding("lib/util.py", NoLine, "Eval", "low", "medium"),
         Finding("lib/util.py", 0, "Eval", "", "medium"),
         Finding("api/db.js", 1, "Secret", "medium", "critical"),
         Finding("src/auth/login.ts", 2, "Token", "", "info") >>,
      << Finding("package.json", NoLine, "Dep", "low", "low") >> }

\* What the AI scanner reports: nothing; or a finding the pattern scanner
\* may report too, one triple twice, with low confidence and with high, and
\* a confidence spelt "Low".
AiScenarios ==
    { <<>>,
      << Finding("lib/util.py", 3, "Eval", "medium", "high"),
         Finding("api/db.js", 7, "SQL injection", "low", "high"),
         Finding("api/db.js", NoLine, "Weak hash", "Low", "low"),
         Finding("api/db.js", 7, "SQL injection", "high", "high") >> }

NoScanResult ==
    [findings |-> <<>>, summary |-> getScanSummary(<<>>),
     grouped |-> groupBySeverity(<<>>),
     meta |-> [depth |-> "", aiEnabled |-> FALSE, maxFiles |-> 0,
               aiFilesSelected |-> 0]]

NotReturned == [kind |-> "none", value |-> Null, result |-> NoScanResult]

\* The result an earlier scan left in the store.
CachedScanText ==
    "{\"findings\":[{\"file\":\"old.ts\",\"line\":1,\"title\":\"Old\"}],"
    \o "\"meta\":{\"depth\":\"quick\",\"aiFilesSelected\":0}}"

CachedScanValue == StringValue(Compress(CachedScanText))

ScanConfig == buildScanConfig(scanReq.options)

\* No request was served before this one.
NoEarlierScan == [served |-> FALSE]

ScanKeyOf(req) ==
    getCachedRepoQueryAnswerKey(req.owner, req.repo,
                                ScanCacheKey(buildScanConfig(req.options)),
                                PathsOf(req.files))

ScanInit ==
    /\ scanReq \in ScanRequests
    /\ scanStore \in {{}, {Setex(ScanKeyOf(scanReq), AnswerTtl, CachedScanValue)}}
    /\ scanPc = "start"
    /\ codeFiles = <<>>
    /\ filesWithContent = <<>>
    /\ patternFindings = <<>>
    /\ aiFiles = <<>>
    /\ aiFindings = <<>>
    /\ scanResult = NotReturned
    /\ scanLog = <<>>
    /\ scanEarlier = NoEarlierScan

ScanIdle ==
    /\ scanReq = [owner |-> "", repo |-> "", files |-> <<>>,
                  options |-> [depth |-> NoDepth, maxFiles |-> NoNumber,
                               enableAi |-> NoFlag, aiMaxFiles |-> NoNumber,
                               includePatterns |-> NoList,
                               excludePatterns |-> NoList,
                               filePaths |-> NoList]]
    /\ scanStore = {}
    /\ scanPc = "idle"
    /\ codeFiles = <<>>
    /\ filesWithContent = <<>>
    /\ patternFindings = <<>>
    /\ aiFiles = <<>>
    /\ aiFindings = <<>>
    /\ scanResult = NotReturned
    /\ scanLog = <<>>
    /\ scanEarlier = NoEarlierScan

OtherIdle == RaceIdle /\ ScanIdle

\* A call made during the scan: what was called, for which paths, whether
\* it returned, and what it came to.
Call(name, paths, ok) ==
    [call |-> name, paths |-> paths, ok |-> ok,
     returned |-> IF ok THEN "ok" ELSE "throw"]

\* The fetch of one file, in the world chosen for the run.
FetchCall(world, path) ==
    [Call("fetchContent", <<path>>, FetchOutcome(world, path) # "throw")
       EXCEPT !.returned = FetchOutcome(world, path)]

\* A probe that goes on to scan whatever the cache answered.
ScanProbeIgnoresHit ==
    /\ scanPc = "start"
    /\ ScanFrame
    /\ \E fails \in BOOLEAN :
         scanLog' = Append(scanLog, Call("kv.get", PathsOf(scanReq.files), ~fails))
    /\ codeFiles' = filterCodeFiles(scanReq.files, ScanConfig)
    /\ scanPc' = "fetch"
    /\ UNCHANGED <<scanReq, scanEarlier, scanStore, filesWithContent, patternFindings,
                   aiFiles, aiFindings, scanResult>>

\* scanRepositoryVulnerabilities up to the first fetch: build the config,
\* probe the cache and return what it holds; otherwise enter runSecurityScan
\* and filter the files.
ScanProbe ==
    /\ scanPc = "start"
    /\ ScanFrame
    /\ \E fails \in BOOLEAN :
         LET config == ScanConfig
             filePaths == PathsOf(scanReq.files)
             cacheKey == ScanCacheKey(config)
             out == getCachedRepoQueryAnswer(scanStore, scanReq.owner,
                        scanReq.repo, cacheKey, filePaths, fails)
         IN /\ scanLog' = Append(scanLog, Call("kv.get", filePaths, ~fails))
            /\ IF out.threw
               THEN /\ scanResult' = [NotReturned EXCEPT !.kind = "threw"]
                    /\ scanPc' = "done"
                    /\ UNCHANGED codeFiles
               ELSE IF ~IsFalsy(out.ret)
               THEN /\ scanResult' = [kind |-> "cached", value |-> out.ret,
                                      result |-> NoScanResult]
                    /\ scanPc' = "done"
                    /\ UNCHANGED codeFiles
               ELSE /\ codeFiles' = filterCodeFiles(scanReq.files, config)
                    /\ scanPc' = "fetch"
                    /\ UNCHANGED scanResult
    /\ UNCHANGED <<scanReq, scanEarlier, scanStore, filesWithContent, patternFindings,
                   aiFiles, aiFindings>>

\* A fetch loop that drops only the files whose fetch threw.
ScanFetchKeepsEmpty ==
    /\ scanPc = "fetch"
    /\ ScanFrame
    /\ \E world \in FetchWorlds, pattern \in PatternScenarios :
         LET config == ScanConfig
             Fetched(f) == FetchOutcome(world, f.path) # "throw"
             kept == SelectSeq(codeFiles, Fetched)
             got == [i \in 1..Len(kept) |->
                            [path |-> kept[i].path, content |-> FetchedText]]
             reported == SelectSeq(pattern,
                             LAMBDA f : \E i \in 1..Len(kept) : kept[i].path = f.file)
             aiMaxFiles == config.aiMaxFiles
             picked == IF config.aiEnabled
                       THEN SelectAiFiles(got, reported, aiMaxFiles)
                       ELSE <<>>
         IN /\ filesWithContent' = got
            /\ patternFindings' = reported
            /\ aiFiles' = picked
            /\ scanLog' = scanLog
                 \o [i \in 1..Len(codeFiles) |-> FetchCall(world, codeFiles[i].path)]
                 \o <<Call("scanFiles", PathsOf(got), TRUE)>>
            /\ scanPc' = IF Len(picked) > 0 THEN "ai" ELSE "reconcile"
    /\ UNCHANGED <<scanReq, scanEarlier, scanStore, codeFiles, aiFindings, scanResult>>

\* Stages 2 and 3 and the choice of the AI files: fetch each code file in
\* turn, keep those that gave a non-empty string, run the pattern scanner,
\* and, with AI enabled, pick the files for the AI scanner.
ScanFetch ==
    /\ scanPc = "fetch"
    /\ ScanFrame
    /\ \E world \in FetchWorlds, pattern \in PatternScenarios :
         LET config == ScanConfig
             Fetched(f) == FetchOutcome(world, f.path) = "ok"
             kept == SelectSeq(codeFiles, Fetched)
             got == [i \in 1..Len(kept) |->
                            [path |-> kept[i].path, content |-> FetchedText]]
             reported == SelectSeq(pattern,
                             LAMBDA f : \E i \in 1..Len(kept) : kept[i].path = f.file)
             aiMaxFiles == config.aiMaxFiles
             picked == IF config.aiEnabled
                       THEN SelectAiFiles(got, reported, aiMaxFiles)
                       ELSE <<>>
         IN /\ filesWithContent' = got
            /\ patternFindings' = reported
            /\ aiFiles' = picked
            /\ scanLog' = scanLog
                 \o [i \in 1..Len(codeFiles) |-> FetchCall(world, codeFiles[i].path)]
                 \o <<Call("scanFiles", PathsOf(got), TRUE)>>
            /\ scanPc' = IF Len(picked) > 0 THEN "ai" ELSE "reconcile"
    /\ UNCHANGED <<scanReq, scanEarlier, scanStore, codeFiles, aiFindings, scanResult>>

\* An AI stage without the try/catch: a throw of the AI scanner ends the scan.
ScanAIThrowPropagates ==
    /\ scanPc = "ai"
    /\ ScanFrame
    /\ \/ \E ai \in AiScenarios :
            /\ aiFindings' = ai
            /\ scanLog' = Append(scanLog, Call("runAi", PathsOf(aiFiles), TRUE))
            /\ scanPc' = "reconcile"
            /\ UNCHANGED scanResult
       \/ /\ aiFindings' = <<>>
          /\ scanLog' = Append(scanLog, Call("runAi", PathsOf(aiFiles), FALSE))
          /\ scanPc' = "done"
          /\ scanResult' = [NotReturned EXCEPT !.kind = "threw"]
    /\ UNCHANGED <<scanReq, scanEarlier, scanStore, codeFiles, filesWithContent,
                   patternFindings, aiFiles>>

\* Stage 4: the AI scanner answers or throws; a throw leaves aiFindings
\* empty.
ScanAI ==
    /\ scanPc = "ai"
    /\ ScanFrame
    /\ \/ \E ai \in AiScenarios :
            /\ aiFindings' = ai
            /\ scanLog' = Append(scanLog, Call("runAi", PathsOf(aiFiles), TRUE))
       \/ /\ aiFindings' = <<>>
          /\ scanLog' = Append(scanLog, Call("runAi", PathsOf(aiFiles), FALSE))
    /\ scanPc' = "reconcile"
    /\ UNCHANGED <<scanReq, scanEarlier, scanStore, codeFiles, filesWithContent,
                   patternFindings, aiFiles, scanResult>>

\* Stage 5: runSecurityScan returns.
ScanReconcile ==
    /\ scanPc = "reconcile"
    /\ ScanFrame
    /\ scanResult' =
         [kind |-> "computed", value |-> Null,
          result |-> Reconcile(ScanConfig, scanReq.files, filesWithContent,
                               patternFindings, aiFindings, Len(aiFiles))]
    /\ scanPc' = "store"
    /\ UNCHANGED <<scanReq, scanEarlier, scanStore, codeFiles, filesWithContent,
                   patternFindings, aiFiles, aiFindings, scanLog>>

\* The result is cached, the store willing, and returned.
ScanStore ==
    /\ scanPc = "store"
    /\ ScanFrame
    /\ LET filePaths == PathsOf(scanReq.files)
           cacheKey == ScanCacheKey(ScanConfig)
           json == ResultJson(scanResult.result)
       IN \E fails \in BOOLEAN :
            LET out == cacheRepoQueryAnswer(scanStore, scanReq.owner, scanReq.repo,
                           cacheKey, filePaths, JsonValue(json), fails)
            IN /\ scanStore' = out.store
               /\ scanLog' = Append(scanLog, Call("kv.setex", filePaths, ~fails))
    /\ scanPc' = "done"
    /\ UNCHANGED <<scanReq, scanEarlier, codeFiles, filesWithContent, patternFindings,
                   aiFiles, aiFindings, scanResult>>

\* The options of a request that follows one made with the defaults: the
\* defaults again, a file limit, a limit for the AI scanner, an exclude
\* pattern, an allow-set, and the deep scan.
RescanOptionChoices ==
    { ScanOptions(NoDepth, NoNumber, NoFlag, NoNumber, NoSelection),
      ScanOptions(NoDepth, Given(2), NoFlag, NoNumber, NoSelection),
      ScanOptions(NoDepth, NoNumber, NoFlag, Given(1), NoSelection),
      ScanOptions(NoDepth, NoNumber, NoFlag, NoNumber,
                  [NoSelection EXCEPT !.excludePatterns = Given(<<"UTIL">>)]),
      ScanOptions(NoDepth, NoNumber, NoFlag, NoNumber,
                  [NoSelection EXCEPT
                     !.filePaths = Given(<<"lib/util.py", "README.md", "Admin.TS">>)]),
      ScanOptions(Given("deep"), NoNumber, NoFlag, NoNumber, NoSelection) }

\* scanRepositoryVulnerabilities is called again, for the same files of the
\* same repository, over the store the request before it left.
ScanAgain ==
    /\ scanPc = "done"
    /\ ~scanEarlier.served
    /\ ScanFrame
    /\ \E options \in RescanOptionChoices :
         scanReq' = [scanReq EXCEPT !.options = options]
    /\ scanEarlier' = [served |-> TRUE, req |-> scanReq, returned |-> scanResult]
    /\ scanPc' = "start"
    /\ codeFiles' = <<>>
    /\ filesWithContent' = <<>>
    /\ patternFindings' = <<>>
    /\ aiFiles' = <<>>
    /\ aiFindings' = <<>>
    /\ scanResult' = NotReturned
    /\ scanLog' = <<>>
    /\ UNCHANGED scanStore

ScanNext ==
    \/ ScanProbe
    \/ ScanFetch
    \/ ScanAI
    \/ ScanReconcile
    \/ ScanStore

\* --------------------------------------------------- lib/cache: key derivation

\* Owners and repositories requests are made for.  Nothing in lib/cache
\* restricts the characters of either.
OwnerChoices == {"a", "a/b"}

RepoChoices == {"c", "b/c"}

KeyQueryChoices == {" Foo Bar ", "foo bar", "FOO"}

ShaChoices == {"1", "2"}

KeyInit == keyLog = <<>> /\ scanKeys = <<>>

\* One request: its scope, its discriminator as given and normalized, and
\* the key the operation derived.
Derive(op, owner, repo, given, normalized, key) ==
    /\ keyLog' = Append(keyLog,
          [op |-> op, owner |-> owner, repo |-> repo, given |-> given,
           normalized |-> normalized, key |-> key])
    /\ UNCHANGED scanKeys

DeriveCacheQuerySelectionKey ==
    /\ Len(keyLog) < MaxKeyRequests
    /\ KeyFrame
    /\ \E owner \in OwnerChoices, repo \in RepoChoices, query \in KeyQueryChoices :
           Derive("cacheQuerySelection", owner, repo, query,
                  Trim(ToLowerCase(query)),
                  cacheQuerySelectionKey(owner, repo, query))

DeriveGetCachedQuerySelectionKey ==
    /\ Len(keyLog) < MaxKeyRequests
    /\ KeyFrame
    /\ \E owner \in OwnerChoices, repo \in RepoChoices, query \in KeyQueryChoices :
           Derive("getCachedQuerySelection", owner, repo, query,
                  Trim(ToLowerCase(query)),
                  getCachedQuerySelectionKey(owner, repo, query))

DeriveCacheFileKey ==
    /\ Len(keyLog) < MaxKeyRequests
    /\ KeyFrame
    /\ \E owner \in OwnerChoices, repo \in RepoChoices, sha \in ShaChoices :
           Derive("cacheFile", owner, repo, sha, sha,
                  cacheFileKey(owner, repo, "p", sha))

DeriveGetCachedFileKey ==
    /\ Len(keyLog) < MaxKeyRequests
    /\ KeyFrame
    /\ \E owner \in OwnerChoices, repo \in RepoChoices, sha \in ShaChoices :
           Derive("getCachedFile", owner, repo, sha, sha,
                  getCachedFileKey(owner, repo, "p", sha))

KeyNext ==
    \/ DeriveCacheQuerySelectionKey
    \/ DeriveGetCachedQuerySelectionKey
    \/ DeriveCacheFileKey
    \/ DeriveGetCachedFileKey

\* A dozen files of one directory: their sorted, joined paths are longer
\* than the file hash.
Crowd == ManyPaths(12)

Reversed(seq) == [i \in 1..Len(seq) |-> seq[Len(seq) + 1 - i]]

\* The scan requests keys are derived for: one repository scanned quickly
\* with AI for two files, and requests that differ from it in the
\* repository, the depth, the AI flag, the order of the files or the files.
ScanKeyBase ==
    [repo |-> "r", depth |-> NoDepth, enableAi |-> NoFlag,
     files |-> <<"b.ts", "a.ts">>]

ScanKeyRequests ==
    { ScanKeyBase,
      [ScanKeyBase EXCEPT !.repo = "s"],
      [ScanKeyBase EXCEPT !.depth = Given("deep")],
      [ScanKeyBase EXCEPT !.depth = Given("quick")],
      [ScanKeyBase EXCEPT !.enableAi = Given(FALSE)],
      [ScanKeyBase EXCEPT !.depth = Given("deep"), !.enableAi = Given(FALSE)] }
    \cup { [ScanKeyBase EXCEPT !.files = files] :
              files \in { <<"a.ts", "b.ts">>, <<"a.ts">>, <<>>, Crowd,
                          Reversed(Crowd), Crowd \o <<"z.ts">> } }

\* config and cacheKey of scanRepositoryVulnerabilities, and the key the
\* cache operation derives from them.
DeriveScanKey(op, req) ==
    LET config == buildScanConfig(ScanOptions(req.depth, NoNumber, req.enableAi,
                                              NoNumber, NoSelection))
        cacheKey == ScanCacheKey(config)
        filePaths == req.files
    IN scanKeys' = Append(scanKeys,
           [op |-> op, owner |-> "o", repo |-> req.repo, depth |-> config.depth,
            aiEnabled |-> config.aiEnabled, files |-> filePaths,
            key |-> IF op = "cacheRepoQueryAnswer"
                    THEN cacheRepoQueryAnswerKey("o", req.repo, cacheKey, filePaths)
                    ELSE getCachedRepoQueryAnswerKey("o", req.repo, cacheKey,
                                                     filePaths)])

\* The key the probe of the scan cache reads
DeriveScanProbeKey ==
    /\ Len(scanKeys) < MaxKeyRequests
    /\ KeyFrame
    /\ \E req \in ScanKeyRequests :
           DeriveScanKey("getCachedRepoQueryAnswer", req)
    /\ UNCHANGED keyLog

\* The key the scan result is written under
DeriveScanStoreKey ==
    /\ Len(scanKeys) < MaxKeyRequests
    /\ KeyFrame
    /\ \E req \in ScanKeyRequests :
           DeriveScanKey("cacheRepoQueryAnswer", req)
    /\ UNCHANGED keyLog

ScanKeyNext ==
    \/ DeriveScanProbeKey
    \/ DeriveScanStoreKey

CacheIdle ==
    /\ kv = {}
    /\ cacheOps = <<>>

KeyIdle == keyLog = <<>> /\ scanKeys = <<>>

\* ------------------------------------------------------------ specifications

vars ==
    <<pipeVars, asmVars, selVars, cacheVars, keyVars, raceVars, scanVars>>

Init == PipeInit /\ AsmIdle /\ SelIdle /\ CacheIdle /\ KeyIdle /\ OtherIdle

Next == PipeNext

\* The pipeline driven by a consumer, with injected collaborators.
Spec == Init /\ [][Next]_vars

InitAssemble == AsmInit /\ PipeIdle /\ SelIdle /\ CacheIdle /\ KeyIdle /\ OtherIdle

NextAssemble == AsmNext

\* Context assembly applied to every bounded batch of fetch results.
SpecAssemble == InitAssemble /\ [][NextAssemble]_vars

InitSelect == SelInit /\ PipeIdle /\ AsmIdle /\ CacheIdle /\ KeyIdle /\ OtherIdle

NextSelect == SelNext

\* One analyzeFileSelection request against the store and the AI collaborator.
SpecSelect == InitSelect /\ [][NextSelect]_vars

InitCache == CacheInit /\ PipeIdle /\ AsmIdle /\ SelIdle /\ KeyIdle /\ OtherIdle

NextCache == CacheNext

\* Exported cache operations called in any order against a store that may
\* fail at any call.
SpecCache == InitCache /\ [][NextCache]_vars

InitQuery == QueryInit /\ AsmIdle /\ CacheIdle /\ KeyIdle /\ OtherIdle

NextQuery == QueryNext

\* A pipeline run whose file selection is analyzeFileSelection over the store.
SpecQuery == InitQuery /\ [][NextQuery]_vars

InitPull == PipeInit /\ AsmIdle /\ SelIdle /\ CacheIdle /\ KeyIdle /\ OtherIdle

NextPull == PullNext

\* A pipeline run whose consumer may stop iterating at any yield.
SpecPull == InitPull /\ [][NextPull]_vars

InitRace ==
    RaceInit /\ PipeIdle /\ AsmIdle /\ SelIdle /\ CacheIdle /\ KeyIdle /\ ScanIdle

NextRace == RaceNext

\* Two analyzeFileSelection requests interleaved at their awaits.
SpecRace == InitRace /\ [][NextRace]_vars

InitScan ==
    ScanInit /\ PipeIdle /\ AsmIdle /\ SelIdle /\ CacheIdle /\ KeyIdle /\ RaceIdle

NextScan == ScanNext

\* One scanRepositoryVulnerabilities request over the store.
SpecScan == InitScan /\ [][NextScan]_vars

InitRescan ==
    /\ InitScan
    /\ scanStore = {}
    /\ Len(scanReq.files) > 3
    /\ scanReq.options = ScanOptions(NoDepth, NoNumber, NoFlag, NoNumber, NoSelection)

NextRescan ==
    \/ ScanProbe
    \/ ScanFetch
    \/ ScanAI
    \/ ScanReconcile
    \/ ScanStore
    \/ ScanAgain

\* Two scanRepositoryVulnerabilities requests in a row over one store that
\* starts empty, the first with the default options.
SpecRescan == InitRescan /\ [][NextRescan]_vars

InitScanKeys == KeyInit /\ PipeIdle /\ AsmIdle /\ SelIdle /\ CacheIdle /\ OtherIdle

NextScanKeys == ScanKeyNext

\* Scan cache keys derived for requests that agree or differ in one part.
SpecScanKeys == InitScanKeys /\ [][NextScanKeys]_vars

InitKeys == KeyInit /\ PipeIdle /\ AsmIdle /\ SelIdle /\ CacheIdle /\ OtherIdle

NextKeys == KeyNext

\* Cache keys derived for bounded sets of scopes and discriminators.
SpecKeys == InitKeys /\ [][NextKeys]_vars

\* ------------------------------------------------------ claims: event protocol

IndicesOf(types) == {i \in 1..Len(events) : events[i].type \in types}

Terminals == IndicesOf({"complete", "error"})

\* C1: a run yields at most one terminal event (complete or error, never
\* both), nothing follows it, and a run iterated to exhaustion has yielded
\* exactly one.
C1_OneTerminalEvent ==
    /\ Cardinality(Terminals) <= 1
    /\ \A i \in Terminals : i = Len(events)
    /\ pc = "done" => Cardinality(Terminals) = 1

C1_Witness ==
    /\ pc = "done" /\ outcome = "exhausted"
    /\ events[Len(events)].type = "error"
    /\ IndicesOf({"content"}) # {}

\* C2: when a collaborator throws, at any point of the run, the generator
\* does not throw to its consumer: it yields exactly one error event, which
\* carries the thrown value's message, and never yields complete.
C2_ThrowBecomesOneErrorEvent ==
    /\ thrown # NotThrown =>
         /\ Cardinality(IndicesOf({"error"})) = 1
         /\ IndicesOf({"complete"}) = {}
         /\ thrown.hasMessage =>
              \A i \in IndicesOf({"error"}) : events[i].message = thrown.message
    /\ thrown = NotThrown => IndicesOf({"error"}) = {}
    /\ consumer = "forward" => outcome # "thrown"

C2_Witness ==
    /\ consumer = "forward" /\ pc = "done"
    /\ thrown = [hasMessage |-> TRUE, message |-> "boom"]
    /\ Len(streamed) >= 1
    /\ calls = <<"analyzeFiles", "fetchFiles", "streamAnswer">>

\* C3: a successful run yields exactly one files event before every content
\* event, then the content events, then exactly one complete event after
\* them; no run yields more than one files event.
C3_EventOrder ==
    /\ Cardinality(IndicesOf({"files"})) <= 1
    /\ IndicesOf({"complete"}) # {} =>
         /\ Cardinality(IndicesOf({"files"})) = 1
         /\ Cardinality(IndicesOf({"complete"})) = 1
         /\ \A f \in IndicesOf({"files"}), c \in IndicesOf({"content"}) : f < c
         /\ \A c \in IndicesOf({"content"}), t \in IndicesOf({"complete"}) : c < t
         /\ IndicesOf({"error"}) = {}

C3_Witness ==
    /\ pc = "done"
    /\ IndicesOf({"complete"}) # {}
    /\ Cardinality(IndicesOf({"content"})) >= 2

IsContent(ev) == ev.type = "content"

\* C4: the content events are exactly the chunks streamAnswer yielded, one
\* event per chunk, in order, text unmodified, append = TRUE; this holds at
\* the moment streamAnswer fails mid-stream too.
C4_ContentMirrorsChunks ==
    SelectSeq(events, IsContent) =
        [i \in 1..Len(streamed) |->
            [type |-> "content", text |-> streamed[i], append |-> TRUE]]

C4_Witness ==
    /\ thrown # NotThrown
    /\ Len(streamed) >= 2
    /\ streamed[1] # streamed[2]
    /\ events[Len(events)].type = "error"

\* ------------------------------------------------------------ claims: collector

RECURSIVE ConcatText(_)
ConcatText(evs) ==
    IF evs = <<>> THEN "" ELSE Head(evs).text \o ConcatText(Tail(evs))

\* C8: when the stream ends with complete, executeRepoQuery returns the
\* concatenation of the content texts in yield order as answer and the
\* complete event's list as relevantFiles.
C8_CollectorResult ==
    (consumer = "collect" /\ outcome = "returned") =>
        /\ events[Len(events)].type = "complete"
        /\ answer = ConcatText(SelectSeq(events, IsContent))
        /\ collectedFiles = events[Len(events)].relevantFiles

C8_Witness ==
    /\ consumer = "collect" /\ outcome = "returned"
    /\ answer = "ab"
    /\ collectedFiles # <<>>

\* C9: executeRepoQuery throws exactly when the stream yields an error
\* event, the thrown Error carries that event's message, and a run that
\* threw returns nothing (no partial answer).
C9_CollectorThrowsIffError ==
    consumer = "collect" =>
        /\ (outcome = "thrown") <=> (IndicesOf({"error"}) # {})
        /\ outcome = "thrown" =>
             \A i \in IndicesOf({"error"}) : failure = events[i].message
        /\ outcome = "returned" => IndicesOf({"error"}) = {}
        /\ outcome = "thrown" => ~ENABLED Finish

C9_Witness ==
    /\ consumer = "collect" /\ outcome = "thrown"
    /\ answer # ""
    /\ failure = "boom"

\* ------------------------------------------------------ claims: token budget

\* C5: the estimated size of the assembled context, file headers and
\* truncation marker included, never exceeds MAX_TOKENS.
C5_ContextWithinBudget ==
    /\ "pipeline" \in asmPc => countTokens(assembled) <= MAX_TOKENS
    /\ "fetchRepoFiles" \in asmPc => countTokens(fetched.context) <= MAX_TOKENS

NotFalsy(r) == ~Falsy(r)

\* The results with non-empty content, in fetch order.
NonEmpty(results) == SelectSeq(results, NotFalsy)

\* countTokens summed over the first k of them.
RECURSIVE PrefixTokens(_, _)
PrefixTokens(ne, k) ==
    IF k = 0 THEN 0 ELSE PrefixTokens(ne, k - 1) + countTokens(ne[k].text)

\* Some result with non-empty content does not fit on top of those before it.
SomeRejected(results) ==
    \E k \in 1..Len(NonEmpty(results)) :
        PrefixTokens(NonEmpty(results), k) > MAX_TOKENS

MarkerCount(text) ==
    Cardinality({i \in 1..(Len(text) - Len(TruncationMarker) + 1) :
        SubSeq(text, i, i + Len(TruncationMarker) - 1) = TruncationMarker})

\* C6: the context holds the truncation marker at most once, and holds it
\* exactly when a result with non-empty content was rejected for the budget.
C6_MarkerOnceIffRejected ==
    /\ "pipeline" \in asmPc =>
         /\ MarkerCount(assembled) <= 1
         /\ MarkerCount(assembled) = 1 <=> SomeRejected(batch)
    /\ "fetchRepoFiles" \in asmPc =>
         /\ MarkerCount(fetched.context) <= 1
         /\ MarkerCount(fetched.context) = 1 <=> SomeRejected(batch)

\* Two results would each overflow the budget, one marker is written.
C6_Witness ==
    /\ asmPc = {"pipeline", "fetchRepoFiles"}
    /\ MarkerCount(assembled) = 1
    /\ Len(NonEmpty(batch)) = 3
    /\ PrefixTokens(NonEmpty(batch), 1) <= MAX_TOKENS
    /\ PrefixTokens(NonEmpty(batch), 2) > MAX_TOKENS
    /\ countTokens(NonEmpty(batch)[3].text) > MAX_TOKENS
    /\ \E i \in 1..Len(batch) : Falsy(batch[i])

\* The length of the longest prefix of the non-empty results whose summed
\* countTokens stays within MAX_TOKENS.
LongestFit(results) ==
    LET ne == NonEmpty(results)
        fits == {k \in 0..Len(ne) : PrefixTokens(ne, k) <= MAX_TOKENS}
    IN CHOOSE k \in fits : \A j \in fits : j <= k

RECURSIVE ConcatBlocks(_)
ConcatBlocks(rs) ==
    IF rs = <<>> THEN ""
    ELSE FileBlock(Head(rs).path, Head(rs).text) \o ConcatBlocks(Tail(rs))

ExpectedContext(results) ==
    LET ne == NonEmpty(results)
        k == LongestFit(results)
    IN ConcatBlocks(SubSeq(ne, 1, k))
           \o (IF k < Len(ne) THEN TruncationMarker ELSE "")

\* C7: the assembly includes exactly the longest prefix, in fetch order, of
\* the results with non-empty content whose cumulative countTokens stays
\* within MAX_TOKENS; null and empty contents are skipped and cost nothing;
\* nothing after the first rejected result is included.
C7_LongestPrefixIncluded ==
    /\ "fetchRepoFiles" \in asmPc =>
         /\ fetched.fetchedFiles =
              [i \in 1..LongestFit(batch) |-> NonEmpty(batch)[i].path]
         /\ fetched.context = ExpectedContext(batch)
    /\ "pipeline" \in asmPc =>
         assembled = IF ExpectedContext(batch) = "" THEN NoContentMessage
                     ELSE ExpectedContext(batch)

\* Skipped, included, rejected, then one that would still have fitted.
C7_Witness ==
    /\ asmPc = {"pipeline", "fetchRepoFiles"}
    /\ Len(batch) = 4
    /\ batch[1].isNull
    /\ NotFalsy(batch[2]) /\ NotFalsy(batch[3]) /\ NotFalsy(batch[4])
    /\ LongestFit(batch) = 1
    /\ countTokens(batch[2].text) + countTokens(batch[4].text) <= MAX_TOKENS
    /\ fetched.fetchedFiles = <<batch[2].path>>

\* ------------------------------------------------------ claims: file selection

\* The positions of the candidates whose file name (last path segment,
\* non-empty) occurs in the query text, case-insensitively.
MatchedAt ==
    {i \in 1..Len(selReq.fileTree) :
        /\ LastSegment(selReq.fileTree[i]) # ""
        /\ Includes(ToLowerCase(selReq.question),
                    ToLowerCase(LastSegment(selReq.fileTree[i])))}

\* The positions of the important root files that are not matched.
ImportantAt ==
    {i \in 1..Len(selReq.fileTree) :
        /\ selReq.fileTree[i] \in {"package.json", "README.md", "tsconfig.json"}
        /\ \A j \in MatchedAt : selReq.fileTree[j] # selReq.fileTree[i]}

\* The k-th smallest member of a set of positions.
Nth(S, k) == CHOOSE i \in S : Cardinality({j \in S : j < i}) = k - 1

Min(a, b) == IF a < b THEN a ELSE b

\* C10: when a candidate's file name occurs in the query, the selection is
\* the matched candidates in candidate order, then the unmatched candidates
\* among package.json, README.md and tsconfig.json, cut to the first 10
\* entries; the cache is neither read nor written and the AI is not called.
C10_MentionBypass ==
    MatchedAt # {} =>
        /\ selPc \in {"start", "done"}
        /\ kvReads = <<>> /\ kvWrites = <<>> /\ aiCalls = 0
        /\ selPc = "done" =>
             /\ Len(selResult) =
                  Min(10, Cardinality(MatchedAt) + Cardinality(ImportantAt))
             /\ \A k \in 1..Len(selResult) :
                  selResult[k] =
                    IF k <= Cardinality(MatchedAt)
                    THEN selReq.fileTree[Nth(MatchedAt, k)]
                    ELSE selReq.fileTree[Nth(ImportantAt, k - Cardinality(MatchedAt))]

\* Nine matched candidates and two important files: the second is cut off.
C10_Witness ==
    /\ selPc = "done"
    /\ Cardinality(MatchedAt) = 9
    /\ Cardinality(ImportantAt) = 2
    /\ Len(selResult) = 10
    /\ selResult[10] \in {"package.json", "tsconfig.json"}
    /\ HasScope(selReq) /\ kvStore # {}

\* The key of the request's (scope, normalized query).
RequestKey ==
    getCachedQuerySelectionKey(selReq.owner, selReq.repo, selReq.question)

\* The store holds an entry for the request's key.
CacheHolds == \E e \in kvStore : e.key = RequestKey

CachedList == (CHOOSE e \in kvStore : e.key = RequestKey).value

\* A request with no mentioned candidate and a scope goes to the cache probe
\* without asking the AI or writing.
ProbeReached ==
    (selPc = "start" /\ MatchedAt = {} /\ HasScope(selReq)) =>
        /\ selPc' = "probe"
        /\ aiCalls' = 0 /\ kvWrites' = <<>> /\ kvStore' = kvStore

HitReturned ==
    /\ selPc' = "done"
    /\ selResult' = CachedList
    /\ aiCalls' = 0 /\ kvWrites' = <<>> /\ kvStore' = kvStore

\* C11 as stated: with no candidate mentioned, a scope given and an entry in
\* the cache for (scope, normalized query), the request returns the cached
\* list unchanged, the AI is not asked and the cache is not written.
C11_CachedListReturned ==
    [][ /\ ProbeReached
        /\ (selPc = "probe" /\ CacheHolds) => HitReturned ]_vars

\* C11 amended: the same, provided the store answers the read; a read that
\* fails counts as a miss and the request goes on to the AI.
C11_CachedListReturnedWhenReadSucceeds ==
    [][ /\ ProbeReached
        /\ (selPc = "probe" /\ CacheHolds /\ kvReads' # kvReads
              /\ ~kvReads'[Len(kvReads')].failed) => HitReturned ]_vars

\* A hit: the question differs from the stored key in case and padding.
C11_Witness ==
    /\ selPc = "done" /\ selPath = "cache"
    /\ MatchedAt = {} /\ HasScope(selReq) /\ CacheHolds
    /\ Len(kvReads) = 1 /\ ~kvReads[1].failed
    /\ selResult = <<"src/auth.ts", "README.md">>
    /\ aiCalls = 0 /\ kvWrites = <<>>

\* The positions of the candidates whose whole path is one of the default
\* names, ignoring case.
BasicAt ==
    {i \in 1..Len(selReq.fileTree) :
        ToLowerCase(selReq.fileTree[i]) \in
            {"readme.md", "package.json", "go.mod", "cargo.toml"}}

\* C12: when the AI collaborator throws or its output cannot be parsed, the
\* request still returns: the result is the candidates whose whole path is
\* readme.md, package.json, go.mod or cargo.toml (case ignored), in candidate
\* order, and the cache is not written.
C12_FallbackOnAIFailure ==
    selPath = "fallback" =>
        /\ selPc = "done"
        /\ Len(selResult) = Cardinality(BasicAt)
        /\ \A k \in 1..Len(selResult) :
             selResult[k] = selReq.fileTree[Nth(BasicAt, k)]
        /\ kvWrites = <<>>

\* The AI was asked and failed, with a scope given; docs/README.md is a
\* candidate and is not returned.
C12_Witness ==
    /\ selPath = "fallback" /\ selPc = "done"
    /\ HasScope(selReq) /\ aiCalls = 1
    /\ Contains(selReq.fileTree, "docs/README.md")
    /\ selResult = <<"README.md", "package.json", "Cargo.toml">>
    /\ kvWrites = <<>>

\* C13: the selection cache is written at most once per request, only after
\* the AI answered a request that has a scope with a non-empty list; the
\* call stores that list, which is also the result, under
\* query:<owner>/<repo>:<trimmed lower-cased query> for 86400 seconds.  A
\* non-empty AI answer with a scope is always written; an empty one never.
C13_WriteOnlyNonEmptyAISelection ==
    /\ kvWrites # <<>> =>
          /\ Len(kvWrites) = 1
          /\ MatchedAt = {} /\ HasScope(selReq) /\ aiCalls >= 1
          /\ selPc = "done" /\ selPath = "ai"
          /\ kvWrites[1].key = "query:" \o selReq.owner \o "/" \o selReq.repo
                                 \o ":" \o Trim(ToLowerCase(selReq.question))
          /\ kvWrites[1].ttl = 86400
          /\ kvWrites[1].value # <<>>
          /\ kvWrites[1].value = selResult
    /\ (selPc = "done" /\ selPath = "ai") =>
          (kvWrites # <<>> <=> (HasScope(selReq) /\ selResult # <<>>))
    /\ selPc = "write" => (HasScope(selReq) /\ selPending # <<>> /\ aiCalls >= 1)

\* A padded mixed-case query missed an empty cache and the AI's two paths
\* were stored under the normalized key.
C13_Witness ==
    /\ selPc = "done" /\ selPath = "ai"
    /\ selReq.question = " What is THIS repo "
    /\ kvWrites = <<[key |-> "query:o/r:what is this repo", ttl |-> 86400,
                     value |-> <<"README.md", "ghost.ts">>,
                     failed |-> FALSE]>>
    /\ selResult = <<"README.md", "ghost.ts">>
    /\ kvStore = {[key |-> "query:o/r:what is this repo", ttl |-> 86400,
                   value |-> <<"README.md", "ghost.ts">>]}

\* C14: a list returned from the AI path never has more than 50 paths,
\* whatever the AI collaborator answers.
C14_AtMost50FromAI ==
    (selPc = "done" /\ selPath = "ai") => Len(selResult) <= 50

\* ------------------------------------------------------- claims: cache layer

\* The call a step of the cache has just made.
LastCall == cacheOps'[Len(cacheOps')]

\* The value the store holds under a key, before the step.
Held(key) == (CHOOSE e \in kv : e.key = key).value

IsFileRoundTrip(i) ==
    /\ cacheOps[i].op = "cacheFile" /\ ~cacheOps[i].kvFailed
    /\ cacheOps[i + 1].op = "getCachedFile" /\ ~cacheOps[i + 1].kvFailed
    /\ cacheOps[i + 1].args = cacheOps[i].args
    /\ Len(cacheOps[i].input.text) <= MaxCachedLength

\* No unpaired surrogate: every high surrogate is followed by a low one and
\* every low one follows a high one.
WellFormed(text) ==
    \A k \in 1..Len(text) :
        LET u == CodeUnitOf(CharAt(text, k))
        IN /\ IsHighSurrogate(u) =>
                (k < Len(text) /\ IsLowSurrogate(CodeUnitOf(CharAt(text, k + 1))))
           /\ IsLowSurrogate(u) =>
                (k > 1 /\ IsHighSurrogate(CodeUnitOf(CharAt(text, k - 1))))

\* C15: for every string s no longer than the size ceiling, cacheFile with s
\* followed by getCachedFile with the same arguments, on a store that works,
\* returns exactly s.
C15_FileRoundTrip ==
    \A i \in 1..(Len(cacheOps) - 1) :
        IsFileRoundTrip(i) =>
            /\ ~cacheOps[i + 1].threw
            /\ cacheOps[i + 1].ret = StringValue(cacheOps[i].input.text)

\* The round trip of C15 does return s when s has no unpaired surrogate,
\* the empty string and the longest cached string included.
FileRoundTripOfWellFormedText ==
    \A i \in 1..(Len(cacheOps) - 1) :
        (IsFileRoundTrip(i) /\ WellFormed(cacheOps[i].input.text)) =>
            /\ ~cacheOps[i + 1].threw
            /\ cacheOps[i + 1].ret = StringValue(cacheOps[i].input.text)

\* A value that carries the marker and that gzip did not write.
IsTampered(v) == v.kind = "string" /\ v.text \in TamperedValues

\* C16: when the store holds, under the key read, a value that starts with
\* the marker and whose remainder cannot be decoded or decompressed,
\* getCachedFile and getCachedRepoQueryAnswer return null and do not throw.
C16_TamperedValueReadsAsAbsent ==
    [][ ( /\ LastCall.op \in {"getCachedFile", "getCachedRepoQueryAnswer"}
          /\ \E e \in kv : e.key = LastCall.key /\ IsTampered(e.value) )
        => (LastCall.ret = Null /\ ~LastCall.threw /\ kv' = kv) ]_vars

\* Both operations read a value whose gzip trailer does not match, from a
\* store that answered.
C16_Witness ==
    /\ Len(cacheOps) = 2
    /\ cacheOps[1].op = "getCachedFile" /\ ~cacheOps[1].kvFailed
    /\ cacheOps[2].op = "getCachedRepoQueryAnswer" /\ ~cacheOps[2].kvFailed
    /\ \A i \in 1..2 :
         /\ cacheOps[i].ret = Null /\ ~cacheOps[i].threw
         /\ \E e \in kv : e.key = cacheOps[i].key
                           /\ e.value = StringValue("gz:H4sIYWHCAQ==")

CacheReads ==
    {"getCachedFile", "getCachedRepoMetadata", "getCachedRepoFullContext",
     "getCachedProfileData", "getCachedFileTree", "getCachedQuerySelection",
     "getCachedRepoQueryAnswer"}

CacheWrites ==
    {"cacheFile", "cacheRepoMetadata", "cacheRepoFullContext",
     "cacheProfileData", "cacheFileTree", "cacheQuerySelection",
     "cacheRepoQueryAnswer"}

\* C17: no exported read or write throws when the store fails; a failing
\* read returns null, a failing write returns normally and changes nothing.
C17_StoreFailureNeverThrows ==
    [][ (LastCall.kvFailed /\ LastCall.op \in CacheReads \cup CacheWrites) =>
          /\ ~LastCall.threw
          /\ kv' = kv
          /\ LastCall.op \in CacheReads => LastCall.ret = Null
          /\ LastCall.op \in CacheWrites => LastCall.ret = Undefined ]_vars

\* A write and a read that both met a failing store, with an entry in the
\* store that the read would otherwise have returned.
C17_Witness ==
    /\ Len(cacheOps) = 2
    /\ cacheOps[1].op = "cacheRepoQueryAnswer" /\ cacheOps[1].kvFailed
    /\ cacheOps[1].ret = Undefined /\ ~cacheOps[1].threw
    /\ cacheOps[2].op = "getCachedFile" /\ cacheOps[2].kvFailed
    /\ cacheOps[2].ret = Null /\ ~cacheOps[2].threw
    /\ \E e \in kv : e.key = cacheOps[2].key

IsQuerySelectionRequest(r) ==
    r.op \in {"cacheQuerySelection", "getCachedQuerySelection"}

\* C18: two queries that are equal after trimming and lower-casing give the
\* same query-selection key for the same owner and repository, whether the
\* key is derived for a write or for a read.
C18_NormalizedQueriesShareKey ==
    \A i, j \in 1..Len(keyLog) :
        ( /\ IsQuerySelectionRequest(keyLog[i])
          /\ IsQuerySelectionRequest(keyLog[j])
          /\ keyLog[i].owner = keyLog[j].owner
          /\ keyLog[i].repo = keyLog[j].repo
          /\ Trim(ToLowerCase(keyLog[i].given)) = Trim(ToLowerCase(keyLog[j].given)) )
        => keyLog[i].key = keyLog[j].key

\* " Foo Bar " written and "foo bar" read for the same repository.
C18_Witness ==
    /\ Len(keyLog) = 2
    /\ keyLog[1].op = "cacheQuerySelection" /\ keyLog[1].given = " Foo Bar "
    /\ keyLog[2].op = "getCachedQuerySelection" /\ keyLog[2].given = "foo bar"
    /\ keyLog[1].owner = "a" /\ keyLog[2].owner = "a"
    /\ keyLog[1].repo = "c" /\ keyLog[2].repo = "c"
    /\ keyLog[1].key = "query:a/c:foo bar"
    /\ keyLog[2].key = "query:a/c:foo bar"

\* C19: two requests that differ in owner, in repository or in normalized
\* discriminator never get the same key.
C19_DistinctRequestsDistinctKeys ==
    \A i, j \in 1..Len(keyLog) :
        ( \/ keyLog[i].owner # keyLog[j].owner
          \/ keyLog[i].repo # keyLog[j].repo
          \/ keyLog[i].normalized # keyLog[j].normalized )
        => keyLog[i].key # keyLog[j].key

\* C20: a write of a value above the size ceiling, be it file content or
\* an answer, returns normally, calls no kv.setex and leaves the store as
\* it was.
C20_OversizedValueNotStored ==
    [][ ( /\ LastCall.op \in {"cacheFile", "cacheRepoQueryAnswer"}
          /\ Len(LastCall.input.text) > MaxCachedLength )
        => (~LastCall.threw /\ LastCall.setex = <<>> /\ kv' = kv) ]_vars

\* C21: clearRepoCache fails with its not-implemented error for every owner
\* and repository, whether or not the store would answer; it never returns
\* normally, makes no call on the store and leaves every entry as it was.
C21_ClearRepoCacheAlwaysThrows ==
    [][ LastCall.op = "clearRepoCache" =>
          /\ LastCall.threw
          /\ LastCall.error =
                 ClearRepoCacheMessage(LastCall.args[1], LastCall.args[2])
          /\ LastCall.kvCalls = <<>>
          /\ LastCall.setex = <<>>
          /\ kv' = kv ]_vars

\* clearRepoCache called for the repository whose file and answer the store
\* holds; both entries are still there after the call.
C21_Witness ==
    /\ Len(cacheOps) >= 1
    /\ cacheOps[1].op = "clearRepoCache"
    /\ cacheOps[1].args = <<"o", "r">>
    /\ cacheOps[1].threw
    /\ \E e \in kv : e.key = getCachedFileKey("o", "r", "p", "1")
    /\ \E e \in kv : e.key = getCachedRepoQueryAnswerKey("o", "r", "foo bar", AnswerFiles)

\* ------------------------------------- claims: pipeline over a failing store

\* Every read and every write the run made on the store failed.
StoreAlwaysFailed ==
    /\ \A i \in 1..Len(kvReads) : kvReads[i].failed
    /\ \A i \in 1..Len(kvWrites) : kvWrites[i].failed

FilesEvents == SelectSeq(events, LAMBDA e : e.type = "files")

\* The AI selection answered, fetchFiles returned and the answer stream ended
\* without any of them throwing.
CollaboratorsSucceeded ==
    /\ aiAnswer.ok
    /\ thrown = NotThrown
    /\ pc \in {"completed", "done"}

\* C22: when every store read and write of a run fails while the AI
\* selection, the content fetch and the answer stream succeed, the run ends
\* with complete, yields no error, and its one files event carries the list
\* the AI answered with.
C22_CompletesOverFailingStore ==
    (StoreAlwaysFailed /\ CollaboratorsSucceeded) =>
        /\ events[Len(events)].type = "complete"
        /\ \A i \in 1..Len(events) : events[i].type # "error"
        /\ FilesEvents = <<FilesEvent(aiAnswer.files)>>

\* A run over a store that holds a selection for the question: the read
\* failed, the AI named two files, the write failed, and the run completed.
C22_Witness ==
    /\ kvReads # <<>> /\ kvWrites # <<>> /\ StoreAlwaysFailed
    /\ \E e \in kvStore : e.key = "query:o/r:what is this repo"
                          /\ e.value # aiAnswer.files
    /\ aiAnswer = Answered(<<"README.md", "ghost.ts">>)
    /\ params.filePaths # <<>>
    /\ pc = "done" /\ outcome = "returned"
    /\ events[Len(events)] = CompleteEvent(<<"README.md", "ghost.ts">>)
    /\ events[2] = FilesEvent(<<"README.md", "ghost.ts">>)

\* --------------------------------------------- claims: pull-driven pipeline

LastEvent == events[Len(events)]

HasStatus(progress) ==
    \E i \in 1..Len(events) :
        events[i].type = "status" /\ events[i].progress = progress

\* C23: once the consumer has stopped iterating, the collaborator calls made
\* are only those that precede the last event it received: none after the
\* first status, analyzeFiles alone after files and after the second status,
\* and no streamAnswer unless the consumer pulled again after the third
\* status.
C23_PullDriven ==
    outcome = "abandoned" =>
        /\ Len(events) <= 1 => calls = <<>>
        /\ (events # <<>> /\ LastEvent.type = "files")
              => calls = <<"analyzeFiles">>
        /\ (events # <<>> /\ LastEvent = StatusEvent("Reading selected files...", 40))
              => calls = <<"analyzeFiles">>
        /\ ~HasStatus(70) => ~Contains(calls, "streamAnswer")
        /\ (events # <<>> /\ LastEvent = StatusEvent("Thinking...", 70))
              => calls = <<"analyzeFiles", "fetchFiles">>

\* The consumer stopped right after the files event.
C23_Witness ==
    /\ outcome = "abandoned"
    /\ Len(events) = 2 /\ events[2].type = "files" /\ events[2].files # <<>>
    /\ calls = <<"analyzeFiles">>
    /\ pc = "files"

\* ------------------------------------------ claims: concurrent selection

SameRequest ==
    /\ race[1].owner = race[2].owner /\ race[1].repo = race[2].repo
    /\ Trim(ToLowerCase(race[1].question)) = Trim(ToLowerCase(race[2].question))

BothMissed == \A i \in Requests : race[i].probe \in {"miss", "failed"}

\* The writes the store accepted, in order.
AcceptedWrites == SelectSeq(raceWrites, LAMBDA w : ~w.failed)

\* C24: of two requests with the same scope and normalized query that both
\* miss, neither fails or loses its own answer because of the other: each
\* returns the list its own AI call gave, or the fallback when its own AI
\* call failed; every write goes to the one key, and once writes were
\* accepted the key holds the list of the last one.
C24_ConcurrentMissesIndependent ==
    (SameRequest /\ BothMissed) =>
        /\ \A i \in Requests :
              race[i].pc = "done" =>
                  /\ race[i].path \in {"ai", "fallback"}
                  /\ race[i].answer.ok => race[i].result = race[i].answer.files
                  /\ ~race[i].answer.ok =>
                        race[i].result = FallbackFiles(race[i].fileTree)
        /\ \A k \in 1..Len(raceWrites) :
              /\ raceWrites[k].key = RaceKey(1)
              /\ raceWrites[k].value = race[raceWrites[k].req].answer.files
        /\ AcceptedWrites # <<>> =>
              \E e \in raceStore :
                  /\ e.key = RaceKey(1)
                  /\ e.value = AcceptedWrites[Len(AcceptedWrites)].value
                  /\ \A f \in raceStore : f.key = e.key => f = e

\* Both requests missed an empty store, both asked the AI, which gave them
\* different lists, and both wrote the key; the second write is what the
\* store holds.
C24_Witness ==
    /\ race[1].question = " What is THIS repo "
    /\ race[2].question = "what is this repo"
    /\ \A i \in Requests : race[i].pc = "done" /\ race[i].probe = "miss"
    /\ race[1].result = <<"src/auth.ts">>
    /\ race[2].result = <<"README.md", "ghost.ts">>
    /\ Len(raceWrites) = 2
    /\ raceWrites[1].req = 2 /\ raceWrites[2].req = 1
    /\ raceWrites[1].key = raceWrites[2].key
    /\ ~raceWrites[1].failed /\ ~raceWrites[2].failed
    /\ raceStore = {[key |-> "query:o/r:what is this repo", ttl |-> 86400,
                     value |-> <<"src/auth.ts">>]}

\* ------------------------------------------------- claims: security scan

\* The identifying triple of a finding; an absent line counts as 0.
Triple(f) == <<f.file, IF f.hasLine THEN f.line ELSE 0, f.title>>

Returned == scanResult.result.findings

Computed == scanResult.kind = "computed"

\* C25: the findings runSecurityScan returns hold no two findings with the
\* same (file, line-or-zero, title) triple; a triple both scanners reported
\* is there at most once.
C25_NoTwoFindingsShareATriple ==
    Computed =>
        \A i, j \in 1..Len(Returned) :
            i # j => Triple(Returned[i]) # Triple(Returned[j])

\* Both scanners reported the finding at line 3 of lib/util.py, the pattern
\* scanner the same title again with no line and with line 0, and the
\* result holds the triple of line 3 and the triple of line 0.
C25_Witness ==
    /\ Computed
    /\ \E i \in 1..Len(patternFindings), j \in 1..Len(aiFindings) :
          /\ Triple(patternFindings[i]) = <<"lib/util.py", 3, "Eval">>
          /\ Triple(aiFindings[j]) = <<"lib/util.py", 3, "Eval">>
    /\ \E i, j \in 1..Len(patternFindings) :
          /\ i # j
          /\ ~patternFindings[i].hasLine
          /\ Triple(patternFindings[i]) = Triple(patternFindings[j])
    /\ \E k \in 1..Len(Returned) : Triple(Returned[k]) = <<"lib/util.py", 3, "Eval">>

\* The findings of both scanners after deduplication, before the confidence
\* filter.
Merged == deduplicateFindings(patternFindings \o aiFindings)

SameFinding(f, g) ==
    /\ Triple(f) = Triple(g)
    /\ f.hasLine = g.hasLine
    /\ f.confidence = g.confidence
    /\ f.severity = g.severity

CachedResultFound ==
    /\ \E e \in scanStore :
          e.key = ScanKeyOf(scanReq) /\ e.value = CachedScanValue
    /\ scanLog # <<>>
    /\ scanLog[1].ok

\* C27: a scan that finds a cached result returns it and runs no stage: it
\* fetches no content, calls neither scanner and does not write the cache.
C27_CacheHitSkipsEveryStage ==
    CachedResultFound =>
        /\ scanPc = "done"
        /\ scanResult.kind = "cached"
        /\ scanResult.value = JsonValue(CachedScanText)
        /\ Len(scanLog) = 1
        /\ scanLog[1].call = "kv.get"
        /\ scanStore = {Setex(ScanKeyOf(scanReq), AnswerTtl, CachedScanValue)}
        /\ codeFiles = <<>>
        /\ filesWithContent = <<>>

\* A cached result was returned to a request for seven files with AI
\* enabled, which a scan would have fetched and scanned.
C27_Witness ==
    /\ CachedResultFound
    /\ scanResult.kind = "cached"
    /\ Len(scanReq.files) > 3
    /\ ScanConfig.aiEnabled
    /\ filterCodeFiles(scanReq.files, ScanConfig) # <<>>

\* The AI stage has chosen its files.
AiFilesChosen ==
    /\ scanPc \in {"ai", "reconcile", "store", "done"}
    /\ scanResult.kind \in {"none", "computed"}
    /\ ScanConfig.aiEnabled

HasPatternHit(file) ==
    \E k \in 1..Len(patternFindings) : patternFindings[k].file = file.path

\* The four properties of the list handed to the AI scanner.
AiFileListInOrder ==
    /\ Len(aiFiles) <= ScanConfig.aiMaxFiles
    /\ \A i, j \in 1..Len(aiFiles) :
          i < j =>
              /\ ~(~HasPatternHit(aiFiles[i]) /\ HasPatternHit(aiFiles[j]))
              /\ HasPatternHit(aiFiles[i]) = HasPatternHit(aiFiles[j])
                    => scorePathRisk(aiFiles[i].path) >= scorePathRisk(aiFiles[j].path)
    /\ (\E i \in 1..Len(aiFiles) : ~HasPatternHit(aiFiles[i]))
          => Cardinality({k \in 1..Len(filesWithContent) :
                             HasPatternHit(filesWithContent[k])})
               < ScanConfig.aiMaxFiles

NoPathTwice(files) ==
    \A i, j \in 1..Len(files) : i # j => files[i].path # files[j].path

\* C29: the list handed to the AI scanner names no path twice, has at most
\* aiMaxFiles entries, has every file with a pattern finding before every
\* file without one, each group by non-increasing risk score, and holds a
\* file without a pattern finding only if the files with one do not fill the
\* limit.
C29_AiFileList ==
    AiFilesChosen => (NoPathTwice(aiFiles) /\ AiFileListInOrder)

\* For a request that names no path twice the list has all of it.
AiFileListOfDistinctPaths ==
    (AiFilesChosen /\ NoPathTwice(scanReq.files))
        => (NoPathTwice(aiFiles) /\ AiFileListInOrder)

\* The order and the limit hold for every request.
AiFileListAlwaysInOrder == AiFilesChosen => AiFileListInOrder

\* The conditions of the claim on one path of the request.
Qualifies(path, config) ==
    /\ \/ \E ext \in CodeExtensions : EndsWith(ToLowerCase(path), "." \o ext)
       \/ path = "package.json"
    /\ scanReq.options.filePaths.given
          => \E k \in 1..Len(scanReq.options.filePaths.value) :
                 scanReq.options.filePaths.value[k] = path
    /\ Len(config.includeMatchers) > 0 => matchesAny(path, config.includeMatchers)
    /\ ~matchesAny(path, config.excludeMatchers)

Qualifying ==
    LET config == ScanConfig
    IN {i \in 1..Len(scanReq.files) : Qualifies(scanReq.files[i].path, config)}

\* The position in the request of the k-th file that qualifies.
NthQualifying(qualifying, k) ==
    CHOOSE i \in qualifying : Cardinality({j \in qualifying : j <= i}) = k

Filtered == scanPc \in {"fetch", "ai", "reconcile", "store"}

\* C30: filterCodeFiles returns, in the order of the input, the first
\* maxFiles files that qualify: never a file that fails a condition, never
\* more than maxFiles, and no qualifying file skipped before the limit.
C30_FirstMaxFilesThatQualify ==
    Filtered =>
        LET maxFiles == ScanConfig.maxFiles
            qualifying == Qualifying
        IN /\ Len(codeFiles) <= maxFiles
           /\ Len(codeFiles) = IF Cardinality(qualifying) < maxFiles
                               THEN Cardinality(qualifying) ELSE maxFiles
           /\ \A k \in 1..Len(codeFiles) :
                 codeFiles[k] = scanReq.files[NthQualifying(qualifying, k)]

\* Seven files, a limit of two and an exclude pattern: the first file is no
\* code, the second is excluded, five qualify, and the third and fourth of
\* the input are returned.
C30_Witness ==
    /\ Filtered
    /\ Len(scanReq.files) = 7
    /\ ScanConfig.maxFiles = 2
    /\ Len(ScanConfig.excludeMatchers) > 0
    /\ Cardinality(Qualifying) > 2
    /\ PathsOf(codeFiles) = <<"src/auth/login.ts", "package.json">>

\* ---------------------------------------------- claims: the scan cache key

SameScanRequest(a, b) ==
    /\ a.owner = b.owner
    /\ a.repo = b.repo
    /\ a.depth = b.depth
    /\ a.aiEnabled = b.aiEnabled
    /\ SortFiles(a.files) = SortFiles(b.files)

\* Two scan requests with the same scope, depth, AI flag and sorted file list
\* get the same key, in whatever order the files were given, on the read
\* and on the write.
ScanKeysAgreeOnEqualRequests ==
    \A i, j \in 1..Len(scanKeys) :
        SameScanRequest(scanKeys[i], scanKeys[j])
            => scanKeys[i].key = scanKeys[j].key

\* C28: the scan cache key is determined by scope, depth, AI flag and sorted
\* file list: requests that agree on the four get the same key whatever the
\* order of the files, and requests whose sorted file lists, depths or AI
\* flags differ never get the same key.
C28_ScanKeyDeterminedByRequest ==
    \A i, j \in 1..Len(scanKeys) :
        /\ SameScanRequest(scanKeys[i], scanKeys[j])
              => scanKeys[i].key = scanKeys[j].key
        /\ ( \/ SortFiles(scanKeys[i].files) # SortFiles(scanKeys[j].files)
             \/ scanKeys[i].depth # scanKeys[j].depth
             \/ scanKeys[i].aiEnabled # scanKeys[j].aiEnabled )
              => scanKeys[i].key # scanKeys[j].key

\* ------------------------------------------- claims: per-file fetch failures

CallsOf(name) == SelectSeq(scanLog, LAMBDA c : c.call = name)

\* The paths whose fetch gave a non-empty string, in the order of the fetches.
FetchedPaths ==
    LET good == SelectSeq(CallsOf("fetchContent"), LAMBDA c : c.returned = "ok")
    IN [k \in 1..Len(good) |-> good[k].paths[1]]

\* The fetch loop and the pattern scan are over.
FetchDone ==
    /\ scanPc \in {"ai", "reconcile", "store", "done"}
    /\ scanResult.kind \in {"none", "computed"}

\* Every filtered file was fetched in turn whatever the earlier fetches came
\* to, the pattern scanner got the files that gave a non-empty string, in
\* filter order, and a run that ended returned a result.
FetchFailuresDropped ==
    /\ [k \in 1..Len(CallsOf("fetchContent")) |-> CallsOf("fetchContent")[k].paths[1]]
         = PathsOf(codeFiles)
    /\ PathsOf(filesWithContent) = FetchedPaths
    /\ Len(CallsOf("scanFiles")) = 1
    /\ CallsOf("scanFiles")[1].paths = FetchedPaths
    /\ scanPc = "done" => scanResult.kind = "computed"

\* C31 as stated: a file whose fetch throws or gives empty or non-string
\* content is dropped and the scan goes on; the pattern scanner and the AI
\* scanner both receive exactly the fetched files, in filter order.
C31_BothScannersGetFetchedFiles ==
    FetchDone =>
        /\ FetchFailuresDropped
        /\ \A k \in 1..Len(CallsOf("runAi")) :
              CallsOf("runAi")[k].paths = FetchedPaths

\* C31, amended: a file whose fetch throws or gives empty or non-string
\* content is dropped and the scan goes on; the pattern scanner receives
\* exactly the fetched files, in filter order, and the AI scanner, when it
\* is called, receives its selection from them and no file that was dropped.
C31_FetchFailuresDropped ==
    FetchDone =>
        /\ FetchFailuresDropped
        /\ \A k \in 1..Len(CallsOf("runAi")) :
              /\ CallsOf("runAi")[k].paths = PathsOf(aiFiles)
              /\ \A i \in 1..Len(aiFiles) :
                    \E j \in 1..Len(FetchedPaths) : FetchedPaths[j] = aiFiles[i].path

\* One fetch threw and one gave no string; the scan ended with a result, the
\* pattern scanner got the five files left of seven and the AI scanner was
\* called.
C31_Witness ==
    /\ FetchDone
    /\ scanPc = "done"
    /\ \E k \in 1..Len(scanLog) :
          scanLog[k].call = "fetchContent" /\ scanLog[k].returned = "throw"
    /\ \E k \in 1..Len(scanLog) :
          scanLog[k].call = "fetchContent" /\ scanLog[k].returned = "nonstring"
    /\ CallsOf("scanFiles")[1].paths
         = <<"src/auth/login.ts", "package.json", "api/db.js">>
    /\ Len(CallsOf("runAi")) = 1

\* --------------------------------------------- claims: the pattern matchers

\* The stretches after the first occur in the text in this order and the
\* last one ends it.
RECURSIVE MatchesToEnd(_, _)
MatchesToEnd(stretches, text) ==
    IF Len(stretches) = 1 THEN EndsWith(text, stretches[1])
    ELSE \E i \in 0..(Len(text) - Len(stretches[1])) :
            /\ SubSeq(text, i + 1, i + Len(stretches[1])) = stretches[1]
            /\ MatchesToEnd(Tail(stretches),
                            SubSeq(text, i + Len(stretches[1]) + 1, Len(text)))

\* The whole path matches the pattern: it begins with the first literal
\* stretch, ends with the last, and the stars stand for what lies between.
WholePathMatches(matcher, path) ==
    IF Len(matcher) = 1 THEN path = matcher[1]
    ELSE /\ StartsWith(path, matcher[1])
         /\ MatchesToEnd(Tail(matcher),
                         SubSeq(path, Len(matcher[1]) + 1, Len(path)))

\* The matchers built for the request and the lower-cased paths they are
\* tried on.
RequestMatchers ==
    LET config == ScanConfig
        all == config.includeMatchers \o config.excludeMatchers
    IN {all[i] : i \in 1..Len(all)}

RequestPaths ==
    {ToLowerCase(scanReq.files[i].path) : i \in 1..Len(scanReq.files)}

\* C32: a matcher built from an include or exclude pattern matches a path
\* only if the whole path matches the pattern, not merely a part of it.
C32_MatchersAnchored ==
    Filtered =>
        \A matcher \in RequestMatchers, path \in RequestPaths :
            MatcherTest(matcher, path) => WholePathMatches(matcher, path)

\* A path that matches the pattern as a whole is matched by its matcher,
\* with the metacharacters literal and whatever the case of the letters.
WholeMatchIsAMatch ==
    Filtered =>
        \A matcher \in RequestMatchers, path \in RequestPaths :
            WholePathMatches(matcher, path) => MatcherTest(matcher, path)

\* ------------------------------------ claims: findings of both confidences

\* What both scanners reported, in the order runSecurityScan joins them.
Reported == patternFindings \o aiFindings

\* C33: every finding a scanner reported with a confidence other than "low"
\* has its triple among the findings returned, also when a finding of the
\* same triple and confidence "low" was reported too.
C33_ConfidentFindingKept ==
    Computed =>
        \A i \in 1..Len(Reported) :
            Reported[i].confidence # "low" =>
                \E k \in 1..Len(Returned) : Triple(Returned[k]) = Triple(Reported[i])

\* The same, for the findings no finding of confidence "low" precedes with
\* the same triple.
ConfidentFindingKeptUnlessShadowed ==
    Computed =>
        \A i \in 1..Len(Reported) :
            /\ Reported[i].confidence # "low"
            /\ \A j \in 1..(i - 1) :
                  Triple(Reported[j]) = Triple(Reported[i])
                      => Reported[j].confidence # "low"
            => \E k \in 1..Len(Returned) : Triple(Returned[k]) = Triple(Reported[i])

\* ----------------------------------- claims: whom a cached scan is returned to

\* The parts of the scan configuration that decide which files are scanned.
EffectiveConfig(req) ==
    LET config == buildScanConfig(req.options)
    IN [maxFiles |-> config.maxFiles, aiMaxFiles |-> config.aiMaxFiles,
        includeMatchers |-> config.includeMatchers,
        excludeMatchers |-> config.excludeMatchers,
        hasSelectedPaths |-> config.hasSelectedPaths,
        selectedPaths |-> config.selectedPaths]

\* The second request was answered from the cache, which only the first
\* request can have filled.
AnsweredFromEarlierScan ==
    /\ scanEarlier.served
    /\ scanResult.kind = "cached"

\* C34: a cached scan result is returned only to a request whose file
\* limit, AI file limit, include patterns, exclude patterns and allow-set
\* equal those of the request that produced the result.
C34_CachedResultOnlyForSameConfig ==
    AnsweredFromEarlierScan =>
        EffectiveConfig(scanReq) = EffectiveConfig(scanEarlier.req)

\* A cached result is what the earlier request returned, and goes only to
\* a request for the same repository, files, depth and AI flag.
CachedResultOnlyForSameKeyParts ==
    AnsweredFromEarlierScan =>
        /\ scanEarlier.returned.kind = "computed"
        /\ scanResult.value = JsonValue(ResultJson(scanEarlier.returned.result))
        /\ scanReq.owner = scanEarlier.req.owner
        /\ scanReq.repo = scanEarlier.req.repo
        /\ scanReq.files = scanEarlier.req.files
        /\ buildScanConfig(scanReq.options).depth
             = buildScanConfig(scanEarlier.req.options).depth
        /\ buildScanConfig(scanReq.options).aiEnabled
             = buildScanConfig(scanEarlier.req.options).aiEnabled

\* ------------------------------------------ claims: a failing AI scanner

\* The AI scanner was called and threw.
AiThrew ==
    \E k \in 1..Len(scanLog) : scanLog[k].call = "runAi" /\ ~scanLog[k].ok

\* What the scan returns when the AI stage contributes no findings.
PatternOnlyResult ==
    Reconcile(ScanConfig, scanReq.files, filesWithContent, patternFindings, <<>>,
              Len(aiFiles))

\* C38: when the AI scanner throws, runSecurityScan still returns, and its
\* findings, summary counts and grouped view are those of the same scan
\* with no findings from the AI stage.
C38_AiFailureLeavesPatternResult ==
    AiThrew =>
        /\ scanResult.kind \in {"none", "computed"}
        /\ scanPc \in {"reconcile", "store", "done"}
        /\ scanPc \in {"store", "done"} => Computed
        /\ Computed =>
              /\ scanResult.result.findings = PatternOnlyResult.findings
              /\ scanResult.result.summary = PatternOnlyResult.summary
              /\ scanResult.result.grouped = PatternOnlyResult.grouped
              /\ \A k \in 1..Len(Returned) :
                    \E i \in 1..Len(patternFindings) :
                        SameFinding(Returned[k], patternFindings[i])

\* The AI scanner threw on the files it was given, and the scan returned
\* the findings of the pattern scanner.
C38_Witness ==
    /\ AiThrew
    /\ Computed
    /\ scanPc = "done"
    /\ ScanConfig.aiEnabled
    /\ Len(aiFiles) > 1
    /\ Len(Returned) > 2

\* ----------------------------- claims: the selection and the candidate list

\* The paths a run reported as selected: those of its files event and of
\* its complete event.
ReportedPaths ==
    UNION { {e.files[i] : i \in 1..Len(e.files)} :
               e \in {events[k] : k \in {j \in 1..Len(events) : events[j].type = "files"}} }
    \cup
    UNION { {e.relevantFiles[i] : i \in 1..Len(e.relevantFiles)} :
               e \in {events[k] : k \in {j \in 1..Len(events) :
                                            events[j].type = "complete"}} }

Candidates == {prunedPaths[i] : i \in 1..Len(prunedPaths)}

\* C35: with the default selector, every path of the files event and of
\* complete.relevantFiles is one of the run's pruned candidates, whether
\* the selection came from a mention, from the cache or from the AI.
C35_SelectionWithinCandidates ==
    selPc = "returned" => ReportedPaths \subseteq Candidates

\* The same for the selections taken from the candidates themselves: the
\* mention bypass and the basic files returned when the AI call fails.
SelectionFromTreeWithinCandidates ==
    (selPc = "returned" /\ selPath \in {"bypass", "fallback"}) =>
        ReportedPaths \subseteq Candidates

\* ------------------------------------- claims: the steps of a pipeline run

Steps == <<"analyzeFiles", "fetchFiles", "streamAnswer">>

HasEvent(type) == \E i \in 1..Len(events) : events[i].type = type

\* C36: in one run analyzeFiles, fetchFiles and streamAnswer are each called
\* at most once, in this order, and none is called again after it threw;
\* fetchFiles is called only after analyzeFiles returned its list and
\* streamAnswer only after fetchFiles returned.
C36_EachStepOnceInOrder ==
    /\ Len(calls) <= Len(Steps)
    /\ calls = SubSeq(Steps, 1, Len(calls))
    /\ Contains(calls, "fetchFiles") => HasEvent("files")
    /\ Contains(calls, "streamAnswer") => HasEvent("files") /\ HasStatus(70)
    /\ (thrown # NotThrown /\ ~HasEvent("files")) => calls = <<"analyzeFiles">>
    /\ (thrown # NotThrown /\ HasEvent("files") /\ ~HasStatus(70))
          => calls = <<"analyzeFiles", "fetchFiles">>

\* fetchFiles threw after analyzeFiles had returned two files: the run ended
\* with the error event, fetchFiles was not called again and streamAnswer
\* not at all.
C36_Witness ==
    /\ pc = "done"
    /\ thrown # NotThrown
    /\ Len(relevantFiles) = 2
    /\ HasEvent("files") /\ ~HasStatus(70)
    /\ LastEvent.type = "error"
    /\ calls = <<"analyzeFiles", "fetchFiles">>

\* --------------------------------------- claims: status before each step

\* The progress values of the status events yielded so far, in order.
StatusProgress ==
    LET status == SelectSeq(events, LAMBDA e : e.type = "status")
    IN [i \in 1..Len(status) |-> status[i].progress]

\* The status events come in the order 15, 40, 70, the first as the first
\* event of the run and the second right after the files event.
StatusInOrder ==
    /\ Len(StatusProgress) <= 3
    /\ StatusProgress = SubSeq(<<15, 40, 70>>, 1, Len(StatusProgress))
    /\ events # <<>> => events[1].type = "status"
    /\ \A i \in 1..Len(events) :
          (events[i].type = "status" /\ events[i].progress = 40)
              => i > 1 /\ events[i - 1].type = "files"

\* Whenever a step's collaborator is called, the status of that step is the
\* event yielded last.
StatusBeforeCall ==
    calls' # calls =>
        /\ events # <<>>
        /\ LastEvent.type = "status"
        /\ LastEvent.progress =
             (CASE calls'[Len(calls')] = "analyzeFiles" -> 15
                [] calls'[Len(calls')] = "fetchFiles" -> 40
                [] calls'[Len(calls')] = "streamAnswer" -> 70)

\* C39: a status event is yielded before analyzeFiles is called, another
\* after the files event and before fetchFiles is called, another before
\* streamAnswer is called, and their progress values rise: 15, 40, 70.
C39_StatusBeforeEachStep == []StatusInOrder /\ [][StatusBeforeCall]_vars

\* A run that went through all three steps and yielded the three statuses.
C39_Witness ==
    /\ pc = "done"
    /\ calls = Steps
    /\ StatusProgress = <<15, 40, 70>>
    /\ LastEvent.type = "complete"

\* ------------------------------------ claims: the list of the complete event

EventsOf(type) == SelectSeq(events, LAMBDA e : e.type = type)

\* The selected files that are in the context handed to streamAnswer.
InContext(path) == Includes(context, "--- FILE: " \o path \o " ---")

\* C40: the list of the complete event is the list of the files event, the
\* whole selection in its order, also when selected files were skipped for
\* having no content or were cut off by the budget.
C40_CompleteCarriesSelection ==
    HasEvent("complete") =>
        /\ Len(EventsOf("complete")) = 1
        /\ Len(EventsOf("files")) = 1
        /\ EventsOf("complete")[1].relevantFiles = EventsOf("files")[1].files
        /\ EventsOf("complete")[1].relevantFiles = relevantFiles

\* Two files were selected, the second did not fit the budget and is not in
\* the context, and the run completed with both in its list.
C40_Witness ==
    /\ HasEvent("complete")
    /\ Len(relevantFiles) = 2
    /\ relevantFiles[1] # relevantFiles[2]
    /\ InContext(relevantFiles[1])
    /\ ~InContext(relevantFiles[2])
    /\ Includes(context, "NOTE: Context truncated")
    /\ EventsOf("complete")[1].relevantFiles = relevantFiles

\* --------------------------------- claims: round trip of the repository context

\* A context with a readme string was cached and read back at once, and the
\* store answered both calls.
IsContextRoundTrip(i) ==
    /\ cacheOps[i].op = "cacheRepoFullContext" /\ ~cacheOps[i].kvFailed
    /\ cacheOps[i + 1].op = "getCachedRepoFullContext" /\ ~cacheOps[i + 1].kvFailed
    /\ cacheOps[i].input.parts[3].kind = "string"

ReadmeReadBack(i) ==
    /\ ~cacheOps[i + 1].threw
    /\ cacheOps[i + 1].ret.kind = "context"
    /\ cacheOps[i + 1].ret.parts[3] = cacheOps[i].input.parts[3]

\* C37: for every readme string, stored plain or compressed,
\* cacheRepoFullContext followed by getCachedRepoFullContext on a working
\* store returns a context whose readme is the readme that was stored.
C37_ReadmeRoundTrip ==
    \A i \in 1..(Len(cacheOps) - 1) :
        IsContextRoundTrip(i) => ReadmeReadBack(i)

\* The round trip of C37 does return the readme when it does not itself
\* start with the marker, on both sides of the threshold.
ReadmeRoundTripWithoutMarker ==
    \A i \in 1..(Len(cacheOps) - 1) :
        (IsContextRoundTrip(i)
           /\ ~StartsWith(cacheOps[i].input.parts[3].text, GzMarker))
            => ReadmeReadBack(i)

====
